---- MODULE Spec2Model ----
(***************************************************************************)
(* A model of the Git fetcher of libfetchers (src/libfetchers/git.cc):     *)
(* GitInputScheme::fetch and lazyFetch, the two-tier result cache they     *)
(* consult and fill, the bare mirror of a remote repository with its ref   *)
(* marker files and its lock file, and the remote repository itself.       *)
(*                                                                         *)
(* One fetch is a sequence of steps; every step touches the shared state   *)
(* (cache, mirror, lock, clock) at most once, so that fetches of several   *)
(* processes interleave exactly where the code lets them.                  *)
(***************************************************************************)
EXTENDS Integers, FiniteSets, Sequences, TLC

(***************************************************************************)
(* Bounds of the model.                                                    *)
(***************************************************************************)
\* revisions are 1..MaxRev; the history is linear, revision r has ancestors 1..r
MaxRev == 2
\* the clock of the concurrent model runs over 0..MaxTime
MaxTime == 2
\* the clock of a sequential model runs over 0..MaxSeqTime
MaxSeqTime == 3
\* the non-zero value of the tarball-ttl setting
TtlLarge == 2
\* how many fetches may be started in one behaviour of the concurrent model
MaxFetches == 3
\* how many fetches may be started in one behaviour of the fair concurrent model
MaxFairFetches == 2
\* how many fetches may be started in one behaviour of the end-to-end scenario
MaxScenarioFetches == 4
\* how many fetches may be started in one behaviour of a sequential model
MaxSeqFetches == 3
\* how many calls may be started in one behaviour of the model of the fetch modes
MaxModeFetches == 2

Revs == 1..MaxRev
NoRev == 0
NoRef == "none"
Procs == {"p1", "p2"}
NoProc == "nobody"

RemoteUrl == "https://remote/repo"
LocalUrl == "file:///work"
Name == "source"

\* Ancestors of a revision (itself included): what a fetch of it brings along.
Anc(r) == 1..r

(***************************************************************************)
(* The external tool's answers about one revision (git log -1 --format=%ct *)
(* and git rev-list --count), and the store's ingestion of its tree.       *)
(***************************************************************************)
LastModifiedOf(r) == 100 + r
RevCountOf(r) == r
NoCount == 0
StorePathOf(name, r, submodules) == <<name, "tree", r, submodules>>
DirtyStorePath(name, submodules) == <<name, "worktree", 0, submodules>>

(***************************************************************************)
(* Requests: the attributes of an Input that fetch reads.                  *)
(***************************************************************************)
Request(url, ref, rev, shallow, allRefs, submodules) ==
    [url |-> url, ref |-> ref, rev |-> rev, shallow |-> shallow,
     allRefs |-> allRefs, submodules |-> submodules]

\* requests of the concurrent model of one remote repository
RemoteRequests ==
    { Request(RemoteUrl, "main", rev, FALSE, FALSE, FALSE) : rev \in {NoRev} \cup Revs }

\* requests of the sequential model of one remote repository
SeqRequests ==
    { Request(RemoteUrl, "main", rev, FALSE, allRefs, FALSE) :
        rev \in {NoRev} \cup Revs, allRefs \in BOOLEAN }

\* the one request of the end-to-end scenario: fetch({url, ref: "main"})
ScenarioRequests == { Request(RemoteUrl, "main", NoRev, FALSE, FALSE, FALSE) }

\* requests against a local working copy
LocalRequests ==
    { Request(LocalUrl, ref, rev, shallow, FALSE, FALSE) :
        ref \in {NoRef, "main"}, rev \in {NoRev} \cup Revs, shallow \in BOOLEAN }

\* requests for the head of the remote repository, shallow or not
ShallowRequests ==
    { Request(RemoteUrl, "main", NoRev, shallow, FALSE, FALSE) : shallow \in BOOLEAN }

VARIABLES
    clock,        \* time(0)
    settings,     \* tarballTtl, allowDirty, warnDirty
    upstream,     \* the remote repository: ref -> revision
    mirror,       \* the bare mirror of RemoteUrl: exists, shallow, objects, markers
    work,         \* the local working copy at LocalUrl
    lockHolder,   \* who holds cacheDir + ".lock"
    cache,        \* the result cache: immutable and mutable entries
    fs,           \* per process: the position and locals of its fetch
    hist          \* history: what the fetches so far did

vars == <<clock, settings, upstream, mirror, work, lockHolder, cache, fs, hist>>


(***************************************************************************)
(* Strings. A std::string is a sequence of characters; the characters that *)
(* occur are listed in the order of their codes ('.' < '/' < '0' < 'a').   *)
(* std::set<std::string> keeps its elements in the order of operator<.     *)
(***************************************************************************)
Alphabet == <<".", "/", "0", "a", "b">>
Chars == { Alphabet[i] : i \in 1..Len(Alphabet) }
Ord(c) == CHOOSE i \in 1..Len(Alphabet) : Alphabet[i] = c

\* std::string::operator<: lexicographic, a proper prefix comes first
StrLess(a, b) ==
    \E i \in 1..(Len(a) + 1) :
        /\ i <= Len(b)
        /\ \A j \in 1..(i - 1) : a[j] = b[j]
        /\ (i = Len(a) + 1 \/ Ord(a[i]) < Ord(b[i]))

\* hasPrefix(s, prefix)
HasPrefix(s, prefix) ==
    /\ Len(prefix) <= Len(s)
    /\ SubSeq(s, 1, Len(prefix)) = prefix

\* the elements of a std::set<std::string> in iteration order
RECURSIVE SetInOrder(_)
SetInOrder(S) ==
    IF S = {} THEN <<>>
    ELSE LET least == CHOOSE x \in S : \A y \in S \ {x} : StrLess(x, y)
         IN  <<least>> \o SetInOrder(S \ {least})

\* an iterator that is always begin()
LowerBound_Begin(files, key) == 1

\* std::set::lower_bound(key): the position of the first element not less than
\* key, Len(files) + 1 for end()
LowerBound(files, key) ==
    IF \E i \in 1..Len(files) : ~StrLess(files[i], key)
    THEN CHOOSE i \in 1..Len(files) :
            /\ ~StrLess(files[i], key)
            /\ \A j \in 1..(i - 1) : StrLess(files[j], key)
    ELSE Len(files) + 1

(***************************************************************************)
(* A directory tree: the paths that exist below its root, relative to the  *)
(* root, each with its type ("regular", "directory", "symlink").           *)
(***************************************************************************)
Slash == <<"/">>

\* path + "/" + name
Child(dir, name) == IF dir = <<>> THEN name ELSE dir \o Slash \o name

\* the entries of a directory: the paths one name below it
IsName(n) == n # <<>> /\ \A i \in 1..Len(n) : n[i] # "/"
Entries(tree, dir) ==
    { q \in DOMAIN tree :
        \E k \in 1..Len(q) : q = Child(dir, SubSeq(q, k, Len(q)))
                                /\ IsName(SubSeq(q, k, Len(q))) }

(***************************************************************************)
(* RepoInfo and getRepoInfo.                                               *)
(***************************************************************************)
\* repoInfo.cacheType: "git" plus one suffix per fetch mode. The string is
\* determined by, and determines, the three flags.
CacheType(shallow, submodules, allRefs) ==
    <<"git">> \o (IF shallow THEN <<"-shallow">> ELSE <<>>)
              \o (IF submodules THEN <<"-submodules">> ELSE <<>>)
              \o (IF allRefs THEN <<"-all-refs">> ELSE <<>>)

\* url.scheme == "file" && !forceHttp && !isBareRepository
IsLocalUrl(url) == url = LocalUrl

\* hasCommits is read from refs/heads; git diff-index --quiet HEAD exits 0
\* (clean) or 1 (modified). Only a local repository requested with neither
\* ref nor rev is probed at all.
GetRepoInfo(input, w) ==
    LET isLocal == IsLocalUrl(input.url)
        maybeDirty == input.ref = NoRef /\ input.rev = NoRev /\ isLocal
    IN  [ shallow |-> input.shallow,
          submodules |-> input.submodules,
          allRefs |-> input.allRefs,
          cacheType |-> CacheType(input.shallow, input.submodules, input.allRefs),
          isLocal |-> isLocal,
          isDirty |-> maybeDirty /\ ~(w.hasCommits /\ ~w.modified),
          hasCommits |-> IF maybeDirty THEN w.hasCommits ELSE TRUE,
          url |-> input.url,
          probed |-> maybeDirty ]

\* a check that only ever warns
CheckDirty_OnlyWarns(isDirty, allowDirty, warnDirty) ==
    IF isDirty /\ warnDirty THEN "warn" ELSE "ok"

\* RepoInfo::checkDirty: "throw", "warn" or "ok"
CheckDirty(isDirty, allowDirty, warnDirty) ==
    IF ~isDirty THEN "ok"
    ELSE IF ~allowDirty THEN "throw"
    ELSE IF warnDirty THEN "warn" ELSE "ok"

(***************************************************************************)
(* The result cache. An entry is found by its key attributes. An immutable *)
(* entry is valid forever, a mutable one while now - storedAt < ttl.       *)
(***************************************************************************)
ImmutableAttrs(cacheType, name, rev) ==
    [type |-> cacheType, name |-> name, rev |-> rev]

MutableAttrs(cacheType, name, url, ref) ==
    [type |-> cacheType, name |-> name, url |-> url, ref |-> ref]

EmptyCache == [imm |-> <<>>, mut |-> <<>>]

ImmHit(c, key) == key \in DOMAIN c.imm

MutHit(c, key, now, ttl) ==
    /\ key \in DOMAIN c.mut
    /\ now - c.mut[key].storedAt < ttl

CacheAddImm(c, key, infoAttrs, storePath) ==
    [c EXCEPT !.imm = (key :> [infoAttrs |-> infoAttrs, storePath |-> storePath]) @@ @]

CacheAddMut(c, key, infoAttrs, storePath, now) ==
    [c EXCEPT !.mut = (key :> [infoAttrs |-> infoAttrs, storePath |-> storePath,
                                storedAt |-> now]) @@ @]

(***************************************************************************)
(* The locals of one fetch.                                                *)
(***************************************************************************)
Never == -1
NoInfo == [rev |-> NoRev, lastModified |-> Never, revCount |-> NoCount]
NoPath == <<>>
NoResult == [storePath |-> NoPath, ref |-> NoRef, rev |-> NoRev,
             lastModified |-> Never, revCount |-> NoCount]
NoRequest == Request("", NoRef, NoRev, FALSE, FALSE, FALSE)
\* a working tree of one tracked file
OneFile == <<"a">>
OneFileTree == [q \in {OneFile} |-> "regular"]
NoWork == [hasCommits |-> TRUE, modified |-> FALSE, shallow |-> FALSE,
           head |-> "main", rev |-> 1, tree |-> OneFileTree, tracked |-> {OneFile}]

IdleFs ==
    [ pc |-> "idle",
      op |-> "fetch",             \* fetch or lazyFetch
      orig |-> NoRequest,         \* _input
      ref |-> NoRef,              \* input.getRef()
      rev |-> NoRev,              \* input.getRev()
      repoInfo |-> GetRepoInfo(NoRequest, NoWork),
      now |-> 0,
      infoAttrs |-> NoInfo,
      storePath |-> NoPath,
      result |-> NoResult,
      err |-> "",
      \* what this fetch did, for the properties
      path |-> "",                \* which return statement produced the result
      tools |-> FALSE,            \* the version-control tool was invoked
      net |-> 0,                  \* network refreshes attempted
      fresh |-> FALSE,            \* the ref marker was within ttl at the decision
      warned |-> FALSE,
      listed |-> FALSE,           \* listFiles ran
      ingested |-> FALSE,         \* addToStore ran
      files |-> <<>>,             \* what listFiles returned, in the set's order
      copied |-> {},              \* the paths addToStore took from the working tree
      wroteMut |-> FALSE,
      wroteImm |-> FALSE,
      prior |-> NoResult,         \* result of the earlier success of this request
      priorAt |-> Never,          \* when that earlier fetch refreshed the mirror
      at |-> Never,               \* when this fetch refreshed the mirror
      upAtStart |-> NoRev,        \* the remote ref when this fetch began
      seenRev |-> NoRev,          \* what the last refreshing fetch before this one saw
      checked |-> FALSE,          \* the shallow check was made
      firstAfter |-> FALSE ]      \* the first fetch begun after ttl since that one

InFlight(f) == f.pc \notin {"idle", "done", "failed"}

\* the locals of a fetch die with it; what it did and returned is kept
Ended(f, pc) ==
    [f EXCEPT !.pc = pc, !.ref = NoRef, !.rev = NoRev, !.now = 0,
              !.infoAttrs = NoInfo, !.storePath = NoPath, !.files = <<>>]

\* the statements of fetch between taking cacheDirLock and the end of its scope
LockedPcs == {"gitInit", "decide", "fetch", "readRef"}
InSection(f) == f.pc \in LockedPcs

\* a makeResult that copies lastModified only
MakeResult_NoRevCount(f, infoAttrs, storePath) ==
    IF f.rev = NoRev \/ (f.orig.rev # NoRev /\ f.orig.rev # f.rev)
    THEN [ok |-> FALSE, result |-> NoResult]
    ELSE [ok |-> TRUE,
          result |-> [storePath |-> storePath, ref |-> f.ref, rev |-> f.rev,
                      lastModified |-> infoAttrs.lastModified,
                      revCount |-> NoCount]]

\* makeResult: the two assertions, then revCount (unless shallow) and lastModified
\* are copied from the cached or computed attributes into the input.
MakeResult(f, infoAttrs, storePath) ==
    IF f.rev = NoRev \/ (f.orig.rev # NoRev /\ f.orig.rev # f.rev)
    THEN [ok |-> FALSE, result |-> NoResult]
    ELSE [ok |-> TRUE,
          result |-> [storePath |-> storePath, ref |-> f.ref, rev |-> f.rev,
                      lastModified |-> infoAttrs.lastModified,
                      revCount |-> IF f.repoInfo.shallow THEN NoCount
                                   ELSE infoAttrs.revCount]]

(***************************************************************************)
(* The history. hist.track says what is remembered: "pinned" the result of *)
(* every pinned request that succeeded; "last" the request and result of    *)
(* the fetch that ended last, if it succeeded; "scenario" that and the last *)
(* fetch that returned after refreshing the mirror: what it saw, and when.  *)
(***************************************************************************)
NoSeen == [rev |-> NoRev, at |-> Never]

InitHist(budget, maxTime, track) ==
    [started |-> 0, budget |-> budget, maxTime |-> maxTime, track |-> track,
     inits |-> 0, succ |-> <<>>, succAt |-> Never, seen |-> NoSeen, after |-> FALSE]

TtlElapsed(h, now, ttl) == h.seen.at # Never /\ now - h.seen.at >= ttl

NoteStart(h, now, ttl) ==
    [h EXCEPT !.started = @ + 1,
              !.succ = IF h.track = "pinned" THEN @ ELSE <<>>,
              !.succAt = Never,
              !.after = IF h.track = "scenario" THEN @ \/ TtlElapsed(h, now, ttl)
                        ELSE FALSE]

NoteSuccess(h, f, result) ==
    IF h.track = "pinned"
    THEN IF f.orig.rev # NoRev THEN [h EXCEPT !.succ = (f.orig :> result) @@ @] ELSE h
    ELSE IF h.track = "scenario" /\ f.net = 1 /\ ~f.warned
    THEN [h EXCEPT !.succ = (f.orig :> result), !.succAt = f.at,
                   !.seen = [rev |-> result.rev, at |-> f.at], !.after = FALSE]
    ELSE [h EXCEPT !.succ = (f.orig :> result), !.succAt = f.at]

\* return makeResult(...): the fetch ends, and the history h notes its success
ReturnH(p, f, infoAttrs, storePath, path, h) ==
    LET m == MakeResult(f, infoAttrs, storePath)
    IN  IF m.ok
        THEN /\ fs' = [fs EXCEPT ![p] = [Ended(f, "done") EXCEPT !.result = m.result,
                                                             !.path = path]]
             /\ hist' = NoteSuccess(h, f, m.result)
        ELSE /\ fs' = [fs EXCEPT ![p] = [Ended(f, "failed") EXCEPT
                                               !.err = "AssertionFailed"]]
             /\ hist' = h

Return(p, f, infoAttrs, storePath, path) ==
    ReturnH(p, f, infoAttrs, storePath, path, hist)

Throw(p, f, err) ==
    fs' = [fs EXCEPT ![p] = [Ended(f, "failed") EXCEPT !.err = err]]


(***************************************************************************)
(* fetch, first part: getRepoInfo, the first look at the immutable cache,  *)
(* the choice between the dirty copy and the resolution of the ref.        *)
(***************************************************************************)
\* the ref a request without one gets: the branch of HEAD, or "master"
DefaultRef(isLocal, head) == IF isLocal THEN head ELSE "master"

CanStart(p) == /\ ~InFlight(fs[p])
               /\ hist.started < hist.budget

Start(f0, r, op) ==
    LET repoInfo == GetRepoInfo(r, work)
    IN  [IdleFs EXCEPT !.op = op, !.orig = r, !.ref = r.ref, !.rev = r.rev,
                       !.repoInfo = repoInfo, !.tools = repoInfo.probed,
                       !.prior = IF r \in DOMAIN hist.succ THEN hist.succ[r]
                                 ELSE NoResult,
                       !.priorAt = IF r \in DOMAIN hist.succ THEN hist.succAt
                                   ELSE Never,
                       !.upAtStart = IF hist.track = "scenario" /\ r.ref \in DOMAIN upstream
                                     THEN upstream[r.ref] ELSE NoRev,
                       !.seenRev = hist.seen.rev,
                       !.firstAfter = /\ hist.track = "scenario"
                                      /\ ~hist.after
                                      /\ TtlElapsed(hist, clock, settings.tarballTtl)]

\* git rev-parse <ref> in the working copy resolves every branch to work.rev,
\* and fails in a repository without commits
FetchBody(p, r, op) ==
    LET f == Start(fs[p], r, op)
        key == ImmutableAttrs(f.repoInfo.cacheType, Name, f.rev)
        ref == IF f.ref = NoRef THEN DefaultRef(f.repoInfo.isLocal, work.head) ELSE f.ref
    IN  /\ UNCHANGED <<clock, settings, upstream, mirror, work, lockHolder, cache>>
        /\ IF f.rev # NoRev /\ ImmHit(cache, key)
           THEN ReturnH(p, f, cache.imm[key].infoAttrs, cache.imm[key].storePath,
                        "immutable", NoteStart(hist, clock, settings.tarballTtl))
           ELSE /\ hist' = NoteStart(hist, clock, settings.tarballTtl)
                /\ IF f.repoInfo.isDirty
                   THEN fs' = [fs EXCEPT ![p] = [f EXCEPT !.pc = "checkDirty"]]
                   ELSE IF f.repoInfo.isLocal
                   THEN IF f.rev = NoRev /\ ~work.hasCommits
                        THEN Throw(p, [f EXCEPT !.tools = TRUE], "ToolFailed")
                        ELSE fs' = [fs EXCEPT ![p] =
                                 [f EXCEPT !.ref = ref, !.tools = TRUE,
                                           !.rev = IF f.rev = NoRev THEN work.rev ELSE f.rev,
                                           !.pc = "shallowCheck"]]
                   ELSE fs' = [fs EXCEPT ![p] = [f EXCEPT !.ref = ref, !.pc = "mutLookup"]]

\* fetch(store, _input) is called
BeginFetch(p, r) == CanStart(p) /\ FetchBody(p, r, "fetch")

\* InputScheme::lazyFetch: the tree is fetched into the store, and the accessor
\* serves the store path
InputSchemeLazyFetch(p, r) == FetchBody(p, r, "lazyFetch")

\* lazyFetch(store, input) is called: the working tree itself is served only if
\* the input is a local working copy named without ref and rev
BeginLazyFetch(p, r) ==
    LET f == Start(fs[p], r, "lazyFetch")
    IN  /\ CanStart(p)
        /\ IF r.ref # NoRef \/ r.rev # NoRev \/ ~f.repoInfo.isLocal
           THEN InputSchemeLazyFetch(p, r)
           ELSE /\ fs' = [fs EXCEPT ![p] = [f EXCEPT !.pc = "checkDirty"]]
                /\ hist' = NoteStart(hist, clock, settings.tarballTtl)
                /\ UNCHANGED <<clock, settings, upstream, mirror, work, lockHolder,
                               cache>>

(***************************************************************************)
(* The working tree of a local repository: checkDirty, listFiles, and the  *)
(* copy of the tracked files into the store (fetch) or the accessor over   *)
(* them (lazyFetch).                                                       *)
(***************************************************************************)
\* repoInfo.checkDirty()
CheckDirtyStep(p) ==
    LET f == fs[p]
        outcome == CheckDirty(f.repoInfo.isDirty, settings.allowDirty,
                              settings.warnDirty)
    IN  /\ f.pc = "checkDirty"
        /\ IF outcome = "throw"
           THEN Throw(p, f, "DirtyTreeRejected")
           ELSE fs' = [fs EXCEPT ![p] = [f EXCEPT !.warned = (outcome = "warn"),
                                                  !.pc = "listFiles"]]
        /\ UNCHANGED <<clock, settings, upstream, mirror, work, lockHolder, cache,
                       hist>>

\* what fetch and lazyFetch return for a working tree: the input without rev
WorkTreeResult(storePath, lastModified) ==
    [storePath |-> storePath, ref |-> NoRef, rev |-> NoRev,
     lastModified |-> lastModified, revCount |-> NoCount]

ReturnWorkTree(p, f, result, path) ==
    /\ fs' = [fs EXCEPT ![p] = [Ended(f, "done") EXCEPT !.result = result,
                                                        !.path = path]]
    /\ hist' = NoteSuccess(hist, f, result)

\* listFiles(repoInfo): git ls-files -z; lazyFetch returns the accessor over
\* the files listed
ListFiles(p) ==
    LET f == [fs[p] EXCEPT !.listed = TRUE, !.tools = TRUE,
                           !.files = SetInOrder(work.tracked)]
    IN  /\ f.pc = "listFiles"
        /\ IF f.op = "lazyFetch"
           THEN ReturnWorkTree(p, f, WorkTreeResult(NoPath, Never), "accessor")
           ELSE fs' = [fs EXCEPT ![p] = [f EXCEPT !.pc = "copy"]] /\ hist' = hist
        /\ UNCHANGED <<clock, settings, upstream, mirror, work, lockHolder, cache>>

\* the PathFilter of the dirty copy, on the path `file` relative to repoInfo.url:
\* a directory passes if the first tracked file not less than file + "/" lies
\* under it, anything else if it is a tracked file
PathFilter(files, tree, file) ==
    IF tree[file] = "directory"
    THEN LET prefix == file \o Slash
             i == LowerBound(files, prefix)
         IN  i # Len(files) + 1 /\ HasPrefix(files[i], prefix)
    ELSE \E i \in 1..Len(files) : files[i] = file

\* addToStore(..., Recursive, ..., filter) walks the tree from the root: an
\* entry is taken if the filter passes it, and a directory taken is walked
RECURSIVE AddToStore(_, _, _)
AddToStore(files, tree, dir) ==
    LET kept == { q \in Entries(tree, dir) : PathFilter(files, tree, q) }
    IN  kept \cup UNION { AddToStore(files, tree, q) :
                            q \in { k \in kept : tree[k] = "directory" } }

\* store->addToStore(name, repoInfo.url, Recursive, htSHA256, filter), and
\* lastModified: git log -1 --format=%ct HEAD, or 0 without commits
CopyWorkTree(p) ==
    LET f == [fs[p] EXCEPT !.ingested = TRUE,
                           !.copied = AddToStore(fs[p].files, work.tree, <<>>)]
        lastModified == IF f.repoInfo.hasCommits THEN LastModifiedOf(work.rev) ELSE 0
    IN  /\ f.pc = "copy"
        /\ ReturnWorkTree(p, f,
               WorkTreeResult(DirtyStorePath(Name, f.repoInfo.submodules), lastModified),
               "dirty")
        /\ UNCHANGED <<clock, settings, upstream, mirror, work, lockHolder, cache>>

(***************************************************************************)
(* fetch on a remote repository: the mutable cache, then the mirror under  *)
(* its lock.                                                               *)
(***************************************************************************)
MutableKey(f) == MutableAttrs(f.repoInfo.cacheType, Name, f.repoInfo.url, f.ref)
\* an immutable key made of the rev of the request
ImmutableKey_OfRequest(f) == ImmutableAttrs(f.repoInfo.cacheType, Name, f.orig.rev)

ImmutableKey(f) == ImmutableAttrs(f.repoInfo.cacheType, Name, f.rev)

\* a hit that is used whatever rev it names
RevMatches_Always(requested, rev2) == TRUE

\* !input.getRev() || input.getRev() == rev2
RevMatches(requested, rev2) == requested = NoRev \/ requested = rev2

\* getCache()->lookup(store, mutableAttrs), used unless it names another rev
MutLookup(p) ==
    LET f == fs[p]
        key == MutableKey(f)
    IN  /\ f.pc = "mutLookup"
        /\ UNCHANGED <<clock, settings, upstream, mirror, work, lockHolder, cache>>
        /\ IF /\ MutHit(cache, key, clock, settings.tarballTtl)
              /\ RevMatches(f.rev, cache.mut[key].infoAttrs.rev)
           THEN Return(p, [f EXCEPT !.rev = cache.mut[key].infoAttrs.rev],
                       cache.mut[key].infoAttrs, cache.mut[key].storePath, "mutable")
           ELSE /\ fs' = [fs EXCEPT ![p] = [f EXCEPT !.pc = "lock"]]
                /\ hist' = hist

\* a lock that excludes nobody
LockIsFree_NoWait(holder) == TRUE

\* PathLocks cacheDirLock({cacheDir + ".lock"}) waits until nobody holds the lock
LockIsFree(holder) == holder = NoProc

\* ... and then: if (!pathExists(cacheDir))
Acquire(p) ==
    /\ fs[p].pc = "lock"
    /\ LockIsFree(lockHolder)
    /\ lockHolder' = p
    /\ fs' = [fs EXCEPT ![p] = [@ EXCEPT !.pc = IF mirror.exists THEN "decide" ELSE "gitInit"]]
    /\ UNCHANGED <<clock, settings, upstream, mirror, work, cache, hist>>

\* git init --bare repoDir
GitInit(p) ==
    /\ fs[p].pc = "gitInit"
    /\ mirror' = [mirror EXCEPT !.exists = TRUE]
    /\ hist' = [hist EXCEPT !.inits = IF @ < 2 THEN @ + 1 ELSE @]
    /\ fs' = [fs EXCEPT ![p] = [@ EXCEPT !.pc = "decide", !.tools = TRUE]]
    /\ UNCHANGED <<clock, settings, upstream, work, lockHolder, cache>>

HasMarker(m, ref) == ref \in DOMAIN m.marker

\* a marker that never ages
MarkerExpired_NoTtl(m, ref, now, ttl) == ref \notin DOMAIN m.marker

\* stat(localRefFile) != 0 || st.st_mtime + tarballTtl <= now
MarkerExpired(m, ref, now, ttl) ==
    \/ ~HasMarker(m, ref)
    \/ m.marker[ref].mtime + ttl <= now

\* a decision that never looks at the rev
DoFetch_ByMarker(m, rev, ref, allRefs, now, ttl) ==
    IF allRefs THEN TRUE ELSE MarkerExpired(m, ref, now, ttl)

\* bool doFetch, from the rev (git cat-file -e), allRefs, or the marker's age
DoFetch(m, rev, ref, allRefs, now, ttl) ==
    IF rev # NoRev THEN rev \notin m.objects
    ELSE IF allRefs THEN TRUE
    ELSE MarkerExpired(m, ref, now, ttl)

Decide(p) ==
    LET f == fs[p]
    IN  /\ f.pc = "decide"
        /\ LET d == DoFetch(mirror, f.rev, f.ref, f.repoInfo.allRefs, clock,
                            settings.tarballTtl)
           IN  fs' = [fs EXCEPT ![p] =
                        [f EXCEPT !.now = clock,
                                  !.tools = (f.rev # NoRev) \/ @,
                                  !.fresh = ~MarkerExpired(mirror, f.ref, clock,
                                                           settings.tarballTtl),
                                  !.pc = IF d THEN "fetch" ELSE "readRef"]]
        /\ UNCHANGED <<clock, settings, upstream, mirror, work, lockHolder, cache, hist>>


\* what git fetch <url> <fetchRef>:<fetchRef> brings: the ref named, or with
\* refs/*:refs/* every ref of the remote repository
FetchedRefs(up, ref, allRefs) == IF allRefs THEN DOMAIN up ELSE {ref}

\* a git fetch that leaves the marker of a ref it already has at its old revision
Fetched_KeepsRev(m, up, ref, allRefs, now, time) ==
    [m EXCEPT !.objects = @ \cup UNION {Anc(up[r]) : r \in {ref}},
              !.marker = [r \in (DOMAIN @) \cup {ref} |->
                             IF r \in DOMAIN @ THEN [@[r] EXCEPT !.mtime = now]
                             ELSE [rev |-> up[r], mtime |-> now]]]

\* the mirror after a successful git fetch followed by utimes(localRefFile, now):
\* each fetched ref's marker holds the remote revision; a marker file that is
\* written gets the current time, and the requested ref's gets `now`
Fetched(m, up, ref, allRefs, now, time) ==
    LET got == FetchedRefs(up, ref, allRefs)
        Marker(r) ==
            [rev |-> up[r],
             mtime |-> IF r = ref THEN now
                       ELSE IF HasMarker(m, r) /\ m.marker[r].rev = up[r]
                            THEN m.marker[r].mtime ELSE time]
    IN  [m EXCEPT !.objects = @ \cup UNION {Anc(up[r]) : r \in got},
                  !.marker = [r \in (DOMAIN @) \cup got |->
                                 IF r \in got THEN Marker(r) ELSE @[r]]]

\* no utimes at all
Utimes_Untouched(m, ref, now) == m

\* utimes(localRefFile, times): fails silently when the file is missing
Utimes(m, ref, now) ==
    IF HasMarker(m, ref) THEN [m EXCEPT !.marker[ref].mtime = now] ELSE m

\* a lock that its holder keeps when it leaves the scope
ReleaseLock_Kept(holder, p) == holder

\* the scope of cacheDirLock ends: whoever leaves it holding the lock drops it
ReleaseLock(holder, p) == IF holder = p THEN NoProc ELSE holder

\* git fetch succeeds
FetchOk(p) ==
    LET f == fs[p]
    IN  /\ f.pc = "fetch"
        /\ mirror' = Fetched(mirror, upstream, f.ref, f.repoInfo.allRefs, f.now, clock)
        /\ fs' = [fs EXCEPT ![p] = [f EXCEPT !.pc = "readRef", !.tools = TRUE,
                                             !.net = IF @ < 2 THEN @ + 1 ELSE @,
                                             !.at = IF hist.track = "pinned" THEN Never
                                                    ELSE f.now]]
        /\ UNCHANGED <<clock, settings, upstream, work, lockHolder, cache, hist>>

\* a failed refresh that is never fatal
AfterFetchError_NeverFatal(hasMarker) == "readRef"

\* catch (Error & e): if (!pathExists(localRefFile)) throw; else warn and go on
AfterFetchError(hasMarker) == IF hasMarker THEN "readRef" ELSE "failed"

\* git fetch fails (the network, the remote, the tool)
FetchFail(p) ==
    LET f == fs[p]
        next == AfterFetchError(HasMarker(mirror, f.ref))
        g == [f EXCEPT !.tools = TRUE, !.net = IF @ < 2 THEN @ + 1 ELSE @]
    IN  /\ f.pc = "fetch"
        /\ IF next = "failed"
           THEN /\ Throw(p, g, "FetchFailed")
                /\ lockHolder' = ReleaseLock(lockHolder, p)
                /\ mirror' = mirror
           ELSE /\ fs' = [fs EXCEPT ![p] = [g EXCEPT !.pc = next, !.warned = TRUE,
                                                      !.at = IF hist.track = "pinned"
                                                             THEN Never ELSE f.now]]
                /\ mirror' = Utimes(mirror, f.ref, f.now)
                /\ lockHolder' = lockHolder
        /\ UNCHANGED <<clock, settings, upstream, work, cache, hist>>

\* if (!input.getRev()) rev = readFile(localRefFile); then the lock's scope ends
ReadRef(p) ==
    LET f == fs[p]
    IN  /\ f.pc = "readRef"
        /\ lockHolder' = ReleaseLock(lockHolder, p)
        /\ IF f.rev # NoRev
           THEN fs' = [fs EXCEPT ![p] = [f EXCEPT !.pc = "shallowCheck"]]
           ELSE IF HasMarker(mirror, f.ref)
           THEN fs' = [fs EXCEPT ![p] = [f EXCEPT !.rev = mirror.marker[f.ref].rev,
                                                  !.pc = "shallowCheck"]]
           ELSE Throw(p, f, "SysError")
        /\ UNCHANGED <<clock, settings, upstream, mirror, work, cache, hist>>

(***************************************************************************)
(* fetch, last part: the shallow check, the second look at the immutable   *)
(* cache, extraction and ingestion, and the two cache writes.              *)
(***************************************************************************)
\* git rev-parse --is-shallow-repository in repoDir
IsShallow(f) == IF f.repoInfo.isLocal THEN work.shallow ELSE mirror.shallow

\* a check that lets every repository pass
ShallowOk_Always(isShallow, wantShallow) == TRUE

\* if (isShallow && !repoInfo.shallow) throw
ShallowOk(isShallow, wantShallow) == ~(isShallow /\ ~wantShallow)

\* the fetch goes on to extract the revision without a second look
SecondLookup_Skipped(c, key) == FALSE

\* getCache()->lookup(store, getImmutableAttrs()) once the revision is known
SecondLookup(c, key) == ImmHit(c, key)

\* the shallow check, and: "Now that we know the ref, check again whether we
\* have it in the store." The shallowness of a repository never changes here.
RevisionCheck(p) ==
    LET f == [fs[p] EXCEPT !.tools = TRUE, !.checked = TRUE]
        key == ImmutableKey(f)
    IN  /\ f.pc = "shallowCheck"
        /\ UNCHANGED <<clock, settings, upstream, mirror, work, lockHolder, cache>>
        /\ IF ~ShallowOk(IsShallow(f), f.repoInfo.shallow)
           THEN Throw(p, f, "ShallowMismatch") /\ hist' = hist
           ELSE IF SecondLookup(cache, key)
           THEN Return(p, f, cache.imm[key].infoAttrs, cache.imm[key].storePath,
                       "immutable2")
           ELSE /\ fs' = [fs EXCEPT ![p] = [f EXCEPT !.pc = "extract"]]
                /\ hist' = hist

\* the commits repoDir holds
Objects(f) == IF f.repoInfo.isLocal
              THEN (IF work.hasCommits THEN Anc(work.rev) ELSE {})
              ELSE mirror.objects

\* the mutable entry written by every fetch, pinned or not
CacheWriteStart_Always(origRev) == "writeMut"

\* the mutable entry written by no fetch
CacheWriteStart_Never(origRev) == "writeImm"

\* the first cache write of a fetch: the mutable entry, unless _input had a rev
CacheWriteStart(origRev) == IF origRev = NoRev THEN "writeMut" ELSE "writeImm"

\* git cat-file commit <rev>; git archive or the submodule checkout; addToStore;
\* git log -1 --format=%ct; git rev-list --count
Extract(p) ==
    LET f == [fs[p] EXCEPT !.tools = TRUE]
    IN  /\ f.pc = "extract"
        /\ IF f.rev \notin Objects(f)
           THEN Throw(p, f, "RevisionNotFound")
           ELSE fs' = [fs EXCEPT ![p] =
                    [f EXCEPT !.ingested = TRUE,
                              !.storePath = StorePathOf(Name, f.rev, f.repoInfo.submodules),
                              !.infoAttrs =
                                  [rev |-> f.rev,
                                   lastModified |-> LastModifiedOf(f.rev),
                                   revCount |-> IF f.repoInfo.shallow THEN NoCount
                                                ELSE RevCountOf(f.rev)],
                              !.pc = CacheWriteStart(f.orig.rev)]]
        /\ UNCHANGED <<clock, settings, upstream, mirror, work, lockHolder, cache, hist>>

\* getCache()->add(store, mutableAttrs, infoAttrs, storePath, false)
WriteMut(p) ==
    LET f == fs[p]
    IN  /\ f.pc = "writeMut"
        /\ cache' = CacheAddMut(cache, MutableKey(f), f.infoAttrs, f.storePath, clock)
        /\ fs' = [fs EXCEPT ![p] = [f EXCEPT !.wroteMut = TRUE, !.pc = "writeImm"]]
        /\ UNCHANGED <<clock, settings, upstream, mirror, work, lockHolder, hist>>

\* getCache()->add(store, getImmutableAttrs(), infoAttrs, storePath, true);
\* return makeResult(infoAttrs, std::move(storePath))
WriteImm(p) ==
    LET f == [fs[p] EXCEPT !.wroteImm = TRUE]
    IN  /\ f.pc = "writeImm"
        /\ cache' = CacheAddImm(cache, ImmutableKey(f), f.infoAttrs, f.storePath)
        /\ Return(p, f, f.infoAttrs, f.storePath, "extracted")
        /\ UNCHANGED <<clock, settings, upstream, mirror, work, lockHolder>>

(***************************************************************************)
(* The environment: the interrupt, the clock, the remote repository.       *)
(***************************************************************************)
\* the caller's interrupt, or the failure of the tool, ends the fetch where it
\* stands; the stack unwinds, which ends the scope of cacheDirLock
Interrupt(p) ==
    /\ InFlight(fs[p])
    /\ Throw(p, fs[p], "Interrupted")
    /\ lockHolder' = ReleaseLock(lockHolder, p)
    /\ UNCHANGED <<clock, settings, upstream, mirror, work, cache, hist>>

Tick ==
    /\ clock < hist.maxTime
    /\ clock' = clock + 1
    /\ UNCHANGED <<settings, upstream, mirror, work, lockHolder, cache, fs, hist>>

\* a new commit is pushed to a branch of the remote repository
UpstreamPush(ref) ==
    /\ upstream[ref] < MaxRev
    /\ upstream' = [upstream EXCEPT ![ref] = @ + 1]
    /\ UNCHANGED <<clock, settings, mirror, work, lockHolder, cache, fs, hist>>

(***************************************************************************)
(* The concurrent model: the processes fetch from one remote repository.   *)
(***************************************************************************)
NoMirror == [exists |-> FALSE, shallow |-> FALSE, objects |-> {}, marker |-> <<>>]

InitCommon ==
    /\ clock = 0
    /\ work = NoWork
    /\ lockHolder = NoProc
    /\ cache = EmptyCache
    /\ fs = [p \in Procs |-> IdleFs]

Init ==
    /\ InitCommon
    /\ settings \in {[tarballTtl |-> t, allowDirty |-> TRUE, warnDirty |-> TRUE] :
                        t \in {0, TtlLarge}}
    /\ upstream = [r \in {"main"} |-> 1]
    /\ mirror \in {NoMirror,
                   [exists |-> TRUE, shallow |-> TRUE, objects |-> {}, marker |-> <<>>]}
    /\ hist = InitHist(MaxFetches, MaxTime, "pinned")

Next ==
    \/ \E p \in Procs :
        \/ \E r \in RemoteRequests : BeginFetch(p, r)
        \/ MutLookup(p)
        \/ Acquire(p)
        \/ GitInit(p)
        \/ Decide(p)
        \/ FetchOk(p)
        \/ FetchFail(p)
        \/ ReadRef(p)
        \/ RevisionCheck(p)
        \/ Extract(p)
        \/ WriteMut(p)
        \/ WriteImm(p)
        \/ Interrupt(p)
    \/ Tick
    \/ UpstreamPush("main")

Spec == Init /\ [][Next]_vars


(***************************************************************************)
(* Fairness: a process that runs keeps running, and a process that waits   *)
(* for a lock that stays free gets it. Interrupts, the clock and the       *)
(* remote repository are under no obligation.                              *)
(***************************************************************************)
Proceed(p) ==
    \/ MutLookup(p) \/ GitInit(p) \/ Decide(p) \/ FetchOk(p) \/ FetchFail(p)
    \/ ReadRef(p) \/ RevisionCheck(p) \/ Extract(p) \/ WriteMut(p) \/ WriteImm(p)

Fairness == \A p \in Procs : WF_vars(Proceed(p)) /\ WF_vars(Acquire(p))

InitFair ==
    /\ InitCommon
    /\ settings = [tarballTtl |-> TtlLarge, allowDirty |-> TRUE, warnDirty |-> TRUE]
    /\ upstream = [r \in {"main"} |-> 1]
    /\ mirror = NoMirror
    /\ hist = InitHist(MaxFairFetches, MaxTime, "pinned")

SpecFair == InitFair /\ [][Next]_vars /\ Fairness

(***************************************************************************)
(* Properties of the concurrent model.                                     *)
(***************************************************************************)
Pinned(f) == f.orig.rev # NoRev

\* C1: once a fetch of a pinned request has succeeded, every later fetch of the
\* same request returns the same store path and metadata from the cache, without
\* invoking the version-control tool: no mirror access, no lock, no network, no
\* extraction, no ingestion.
C1_PinnedIdempotence ==
    \A p \in Procs :
        LET f == fs[p]
        IN  (f.pc = "done" /\ Pinned(f) /\ f.prior # NoResult)
                => /\ f.result = f.prior
                   /\ f.path \in {"immutable", "mutable"}
                   /\ ~f.tools
                   /\ f.net = 0

\* C5: at most one process at a time is between taking and dropping the lock of
\* the mirror, and the mirror is initialised at most once.
C5_MutualExclusion ==
    /\ \A p, q \in Procs : (InSection(fs[p]) /\ InSection(fs[q])) => p = q
    /\ hist.inits <= 1

\* a process is inside the section while another one waits for the lock
C5_Witness ==
    \E p, q \in Procs : fs[p].pc = "fetch" /\ fs[q].pc = "lock" /\ hist.inits = 1

\* the lock is held by exactly the process that is inside the section
LockScope ==
    /\ lockHolder \in Procs \cup {NoProc}
    /\ \A p \in Procs : (lockHolder = p) <=> InSection(fs[p])

\* C6: a process holds the lock of the mirror only inside the section (creation,
\* refresh, read of the ref), on every way out of it the lock is dropped, it is
\* never held during the shallow check, the cache lookups, extraction, ingestion
\* or the cache writes, and a process that waits for the lock gets it (or is
\* interrupted while it waits).
C6_LockScopeAndRelease ==
    /\ []LockScope
    /\ \A p \in Procs :
          (fs[p].pc = "lock") ~> (lockHolder = p \/ fs[p].pc = "failed")

\* a process left the section by an exception while another was waiting
C6_Witness ==
    \E p, q \in Procs :
        /\ fs[p].pc = "failed" /\ fs[p].err = "FetchFailed"
        /\ fs[q].pc = "lock" /\ lockHolder = NoProc

\* a fetch that has returned after extraction and ingestion has recorded the
\* immutable entry, and the mutable entry exactly if the request had no rev
CacheWriteRule ==
    \A p \in Procs :
        LET f == fs[p]
            key == ImmutableAttrs(f.repoInfo.cacheType, Name, f.result.rev)
        IN  /\ (f.pc = "done" /\ f.path = "extracted")
                => /\ f.wroteImm
                   /\ ImmHit(cache, key)
                   /\ cache.imm[key].infoAttrs.rev = f.result.rev
                   /\ cache.imm[key].storePath = f.result.storePath
                   /\ f.wroteMut <=> ~Pinned(f)
            /\ Pinned(f) => ~f.wroteMut

\* a step of a fetch whose request had a rev leaves the mutable tier as it was
PinnedStep ==
    \A p \in Procs :
        (Pinned(fs[p]) /\ InFlight(fs[p]) /\ fs'[p] # fs[p]) => cache'.mut = cache.mut

\* C7: a fetch that completes extraction and ingestion always records the
\* immutable entry, and records the mutable entry only if the original request
\* had no rev; a fetch of a pinned request never changes the mutable tier.
C7_CacheWriteRule == []CacheWriteRule /\ [][PinnedStep]_vars

\* a pinned and an unpinned fetch both went through extraction; the mutable
\* entry is the unpinned one's
C7_Witness ==
    \E p, q \in Procs :
        /\ fs[p].pc = "done" /\ fs[p].path = "extracted" /\ Pinned(fs[p])
        /\ fs[q].pc = "done" /\ fs[q].path = "extracted" /\ ~Pinned(fs[q])
        /\ fs[p].result.rev # fs[q].result.rev
        /\ DOMAIN cache.mut # {}

\* C8: a fetch that fails or is cancelled, at any step, has updated both cache
\* tiers or neither.
C8_NoPartialCacheState ==
    \A p \in Procs :
        fs[p].pc = "failed" => (fs[p].wroteMut <=> fs[p].wroteImm)


\* a step out of the refresh: a failed refresh is fatal exactly if the ref has no
\* marker, and otherwise leaves the marker's revision and the objects alone; the
\* refresh is not entered again; the revision then read is the marker's
RefreshStep ==
    \A p \in Procs :
        LET f == fs[p]
            g == fs'[p]
        IN  /\ (f.pc = "fetch" /\ g # f) =>
                /\ g.pc # "fetch"
                /\ g.err = "FetchFailed" =>
                      /\ ~HasMarker(mirror, f.ref)
                      /\ g.pc = "failed"
                      /\ mirror' = mirror
                /\ g.warned =>
                      /\ HasMarker(mirror, f.ref)
                      /\ g.pc = "readRef"
                      /\ g.err = ""
                      /\ mirror'.marker[f.ref].rev = mirror.marker[f.ref].rev
                      /\ mirror'.objects = mirror.objects
            /\ (f.pc = "readRef" /\ f.warned /\ ~Pinned(f) /\ g.pc = "shallowCheck")
                   => g.rev = mirror.marker[f.ref].rev

\* no fetch refreshes the mirror twice, and "FetchFailed" is the error of a
\* fetch whose one refresh failed
OneShot ==
    \A p \in Procs :
        /\ fs[p].net <= 1
        /\ fs[p].err = "FetchFailed" => (fs[p].net = 1 /\ fs[p].pc = "failed")
        /\ fs[p].warned => fs[p].net = 1

\* C4: when the refresh of the mirror fails, the fetch goes on with the stored
\* revision, with a warning, if the ref has a marker, and fails with FetchFailed
\* if it has none; the refresh is attempted once per fetch.
C4_StaleFallback == []OneShot /\ [][RefreshStep]_vars

\* one fetch failed for want of a marker, another fell back and returned
C4_Witness ==
    \E p, q \in Procs :
        /\ fs[p].pc = "failed" /\ fs[p].err = "FetchFailed"
        /\ fs[q].pc = "done" /\ fs[q].warned /\ ~Pinned(fs[q])


(***************************************************************************)
(* The sequential model: one process, one fetch after the other, of any    *)
(* remote request.                                                         *)
(***************************************************************************)
InitSeq ==
    /\ InitCommon
    /\ settings \in {[tarballTtl |-> t, allowDirty |-> TRUE, warnDirty |-> TRUE] :
                        t \in {0, TtlLarge}}
    /\ upstream = [r \in {"main"} |-> 1]
    /\ mirror \in {NoMirror,
                   [exists |-> TRUE, shallow |-> TRUE, objects |-> {}, marker |-> <<>>]}
    /\ hist = InitHist(MaxSeqFetches, MaxSeqTime, "last")

NextSeq ==
    \/ \E r \in SeqRequests : BeginFetch("p1", r)
    \/ MutLookup("p1")
    \/ Acquire("p1")
    \/ GitInit("p1")
    \/ Decide("p1")
    \/ FetchOk("p1")
    \/ FetchFail("p1")
    \/ ReadRef("p1")
    \/ RevisionCheck("p1")
    \/ Extract("p1")
    \/ WriteMut("p1")
    \/ WriteImm("p1")
    \/ Interrupt("p1")
    \/ Tick
    \/ UpstreamPush("main")

SpecSeq == InitSeq /\ [][NextSeq]_vars

\* the ref marker is absent, or its age is at least ttl
MarkerAged(ref) ==
    \/ ref \notin DOMAIN mirror.marker
    \/ clock - mirror.marker[ref].mtime >= settings.tarballTtl

\* the fetch before this one was of the same request, succeeded, refreshed the
\* mirror (or tried to), and less than ttl has passed since
InWindow(f) ==
    /\ f.prior # NoResult
    /\ f.priorAt # Never
    /\ clock - f.priorAt < settings.tarballTtl

\* the refresh decision of the unpinned fetches in `which`
TtlDecision(which) ==
    \A p \in Procs :
        LET f == fs[p]
            g == fs'[p]
        IN  (f.pc = "decide" /\ g.pc \in {"fetch", "readRef"} /\ ~Pinned(f)
                /\ f.orig.allRefs \in which)
                => (g.pc = "fetch" <=> MarkerAged(f.ref))

\* what the unpinned fetches in `which` that returned did on the network
TtlOutcome(which) ==
    \A p \in Procs :
        LET f == fs[p]
        IN  (f.pc = "done" /\ ~Pinned(f) /\ f.orig.allRefs \in which)
                => /\ settings.tarballTtl = 0 => f.net = 1
                   /\ InWindow(f) => (f.net = 0 /\ f.result = f.prior)

\* C2 as stated: for unpinned fetches of (url, ref), with ttl = 0 every fetch
\* refreshes the mirror; with a large ttl a second fetch within ttl of the first
\* does nothing on the network and returns the first one's revision; a refresh
\* happens exactly when the ref marker is absent or its age is at least ttl.
C2_TtlAsStated == []TtlOutcome(BOOLEAN) /\ [][TtlDecision(BOOLEAN)]_vars

\* C2, amended: the same for unpinned fetches without allRefs; with allRefs every
\* fetch that reaches the mirror refreshes it.
C2_TtlCorrectness ==
    /\ []TtlOutcome({FALSE})
    /\ [][TtlDecision({FALSE})]_vars
    /\ [][\A p \in Procs :
            (fs[p].pc = "decide" /\ fs'[p].pc \in {"fetch", "readRef"}
                /\ ~Pinned(fs[p]) /\ fs[p].orig.allRefs) => fs'[p].pc = "fetch"]_vars

\* a second fetch within ttl of the first returned the first one's revision
\* without the network, although the remote ref had moved on
C2_Witness ==
    \E p \in Procs :
        LET f == fs[p]
        IN  /\ f.pc = "done" /\ ~Pinned(f) /\ ~f.orig.allRefs
            /\ InWindow(f) /\ f.net = 0 /\ f.result = f.prior
            /\ upstream[f.orig.ref] # f.result.rev


(***************************************************************************)
(* The end-to-end scenario: fetch({url, ref: "main"}) again and again, one *)
(* at a time, while new commits are pushed to main and time passes.  Every *)
(* fetch of the scenario runs to its end: it returns or it throws.         *)
(***************************************************************************)
InitScenario ==
    /\ InitCommon
    /\ settings \in {[tarballTtl |-> t, allowDirty |-> TRUE, warnDirty |-> TRUE] :
                        t \in {0, TtlLarge}}
    /\ upstream = [r \in {"main"} |-> 1]
    /\ mirror = NoMirror
    /\ hist = InitHist(MaxScenarioFetches, MaxSeqTime, "scenario")

NextScenario ==
    \/ \E r \in ScenarioRequests : BeginFetch("p1", r)
    \/ MutLookup("p1")
    \/ Acquire("p1")
    \/ GitInit("p1")
    \/ Decide("p1")
    \/ FetchOk("p1")
    \/ FetchFail("p1")
    \/ ReadRef("p1")
    \/ RevisionCheck("p1")
    \/ Extract("p1")
    \/ WriteMut("p1")
    \/ WriteImm("p1")
    \/ Tick
    \/ UpstreamPush("main")

SpecScenario == InitScenario /\ [][NextScenario]_vars

\* the mutable entry of this fetch's (url, ref) points at the revision it returned
MutableFollows(f) ==
    LET key == MutableAttrs(f.repoInfo.cacheType, Name, f.repoInfo.url, f.result.ref)
    IN  /\ key \in DOMAIN cache.mut
        /\ cache.mut[key].infoAttrs.rev = f.result.rev

\* a fetch that returns while less than ttl has passed since the last fetch that
\* refreshed the mirror (at t0, returning R1) returns R1 as well
WithinTtl ==
    \A p \in Procs :
        LET f == fs[p]
        IN  (f.pc = "done" /\ hist.seen.at # Never
                /\ clock - hist.seen.at < settings.tarballTtl)
                => f.result.rev = hist.seen.rev

\* C3 as stated: after a refresh at t0 that saw R1, and a push of R2, every fetch
\* made while less than ttl has passed since t0 returns R1, and the first fetch
\* made after ttl has passed returns R2 and leaves the mutable entry at R2.
C3_UpstreamAdvanceAsStated ==
    /\ WithinTtl
    /\ \A p \in Procs :
          LET f == fs[p]
          IN  (f.pc = "done" /\ f.firstAfter)
                  => (f.result.rev >= f.upAtStart /\ MutableFollows(f))

\* C3, amended: ... the first fetch made after ttl has passed returns R2 and
\* leaves the mutable entry at R2 if it refreshes the mirror and the refresh
\* succeeds; otherwise it returns R1 once more.
C3_UpstreamAdvance ==
    /\ WithinTtl
    /\ \A p \in Procs :
          LET f == fs[p]
          IN  (f.pc = "done" /\ f.firstAfter)
                  => IF f.net = 1 /\ ~f.warned
                     THEN f.result.rev >= f.upAtStart /\ MutableFollows(f)
                     ELSE f.result.rev = f.seenRev

\* the first fetch after ttl refreshed the mirror and returned the new revision
C3_Witness ==
    \E p \in Procs :
        LET f == fs[p]
        IN  /\ f.pc = "done" /\ f.firstAfter /\ f.net = 1 /\ ~f.warned
            /\ f.seenRev = 1 /\ f.upAtStart = 2 /\ f.result.rev = 2
            /\ MutableFollows(f)


(***************************************************************************)
(* The model of the fetch modes: one process, fetch and lazyFetch one      *)
(* after the other, on a local working copy in any condition and on a      *)
(* remote repository whose mirror may hold shallow history. Every call     *)
(* runs to its end.                                                        *)
(***************************************************************************)
WorkCopies ==
    { [NoWork EXCEPT !.modified = m, !.shallow = s] : m \in BOOLEAN, s \in BOOLEAN }
    \cup { [NoWork EXCEPT !.hasCommits = FALSE] }

InitModes ==
    /\ clock = 0
    /\ lockHolder = NoProc
    /\ cache = EmptyCache
    /\ fs = [p \in Procs |-> IdleFs]
    /\ work \in WorkCopies
    /\ settings \in {[tarballTtl |-> TtlLarge, allowDirty |-> a, warnDirty |-> w] :
                        a \in BOOLEAN, w \in BOOLEAN}
    /\ upstream = [r \in {"main"} |-> 1]
    /\ mirror \in {NoMirror,
                   [exists |-> TRUE, shallow |-> TRUE, objects |-> {}, marker |-> <<>>]}
    /\ hist = InitHist(MaxModeFetches, 0, "last")

NextModes ==
    \/ \E r \in LocalRequests \cup ShallowRequests : BeginFetch("p1", r)
    \/ \E r \in LocalRequests \cup ShallowRequests : BeginLazyFetch("p1", r)
    \/ CheckDirtyStep("p1")
    \/ ListFiles("p1")
    \/ CopyWorkTree("p1")
    \/ MutLookup("p1")
    \/ Acquire("p1")
    \/ GitInit("p1")
    \/ Decide("p1")
    \/ FetchOk("p1")
    \/ FetchFail("p1")
    \/ ReadRef("p1")
    \/ RevisionCheck("p1")
    \/ Extract("p1")
    \/ WriteMut("p1")
    \/ WriteImm("p1")

SpecModes == InitModes /\ [][NextModes]_vars

\* C9: a call with shallow = false that makes the shallow check on a mirror or
\* working copy with shallow history fails with ShallowMismatch and writes no
\* cache entry; with shallow = true the same repository passes the check; and no
\* call with shallow = false returns a tree extracted from a shallow repository.
C9_ShallowInvariant ==
    \A p \in Procs :
        LET f == fs[p]
        IN  /\ (f.checked /\ IsShallow(f) /\ ~f.orig.shallow)
                  => /\ f.pc = "failed" /\ f.err = "ShallowMismatch"
                     /\ ~f.wroteMut /\ ~f.wroteImm /\ ~f.ingested
            /\ (f.checked /\ IsShallow(f) /\ f.orig.shallow)
                  => f.err # "ShallowMismatch"
            /\ (f.pc = "done" /\ f.path \in {"extracted", "immutable2"}
                    /\ ~f.orig.shallow)
                  => ~IsShallow(f)

\* a non-shallow request failed on a shallow repository from which a shallow
\* request had been served before
C9_Witness ==
    \E p \in Procs :
        LET f == fs[p]
        IN  /\ f.pc = "failed" /\ f.err = "ShallowMismatch"
            /\ f.checked /\ IsShallow(f) /\ ~f.orig.shallow
            /\ \E key \in DOMAIN cache.mut :
                  /\ key.type = CacheType(TRUE, FALSE, FALSE)
                  /\ key.url = f.repoInfo.url

\* the working copy is requested without ref and rev, and it differs from its
\* last commit or has no commit
DirtyCase(f) ==
    /\ f.pc # "idle"
    /\ f.orig.url = LocalUrl /\ f.orig.ref = NoRef /\ f.orig.rev = NoRev
    /\ (work.modified \/ ~work.hasCommits)

\* C10: on a dirty working copy requested without ref and rev, fetch and
\* lazyFetch fail with DirtyTreeRejected before a file is listed or ingested,
\* unless allowDirty is on; with allowDirty they proceed, with a warning exactly
\* if warnDirty is on.
C10_DirtyTreeRejection ==
    \A p \in Procs :
        LET f == fs[p]
        IN  /\ (DirtyCase(f) /\ ~settings.allowDirty)
                  => /\ f.pc \in {"checkDirty", "failed"}
                     /\ f.pc = "failed" => f.err = "DirtyTreeRejected"
                     /\ ~f.listed /\ ~f.ingested
            /\ (DirtyCase(f) /\ settings.allowDirty)
                  => /\ f.pc \in {"checkDirty", "listFiles", "copy", "done"}
                     /\ f.pc # "checkDirty" => (f.warned <=> settings.warnDirty)
                     /\ f.pc = "done" =>
                           /\ f.listed
                           /\ f.path = (IF f.op = "fetch" THEN "dirty" ELSE "accessor")
                           /\ f.ingested <=> (f.op = "fetch")
            /\ (f.err = "DirtyTreeRejected") => (DirtyCase(f) /\ ~settings.allowDirty)

\* lazyFetch was rejected on a working copy without commits
C10_Witness ==
    \E p \in Procs :
        LET f == fs[p]
        IN  /\ DirtyCase(f) /\ ~settings.allowDirty /\ ~work.hasCommits
            /\ f.op = "lazyFetch"
            /\ f.pc = "failed" /\ f.err = "DirtyTreeRejected"


(***************************************************************************)
(* The model of the dirty copy: fetch on a modified working copy, for      *)
(* every working tree over a few names and every set of tracked files.     *)
(* The names are chosen so that "a." sorts before, and "a0" after, what    *)
(* lies under the directory "a".                                           *)
(***************************************************************************)
PathA   == <<"a">>
PathAd  == <<"a", ".">>
PathA0  == <<"a", "0">>
PathAA  == <<"a", "/", "a">>
PathAB  == <<"a", "/", "b">>
PathAAB == <<"a", "/", "a", "/", "b">>
AllPaths == {PathA, PathAd, PathA0, PathAA, PathAB, PathAAB}

\* a directory holds no entry unless it exists and is a directory
WellFormed(tree) ==
    \A q \in DOMAIN tree :
        \A k \in 1..Len(q) :
            q[k] = "/" => /\ SubSeq(q, 1, k - 1) \in DOMAIN tree
                          /\ tree[SubSeq(q, 1, k - 1)] = "directory"

Trees ==
    { tree \in UNION { [D -> {"regular", "directory"}] : D \in SUBSET AllPaths } :
        /\ WellFormed(tree)
        /\ \A q \in DOMAIN tree : tree[q] = "directory" => q \in {PathA, PathAA} }

DirtyRequests == { Request(LocalUrl, NoRef, NoRev, FALSE, FALSE, FALSE) }

InitDirty ==
    /\ clock = 0
    /\ lockHolder = NoProc
    /\ cache = EmptyCache
    /\ fs = [p \in Procs |-> IdleFs]
    /\ work \in { [NoWork EXCEPT !.modified = TRUE, !.tree = tree, !.tracked = tracked] :
                    tree \in Trees, tracked \in SUBSET AllPaths }
    /\ settings = [tarballTtl |-> TtlLarge, allowDirty |-> TRUE, warnDirty |-> FALSE]
    /\ upstream = [r \in {"main"} |-> 1]
    /\ mirror = NoMirror
    /\ hist = InitHist(1, 0, "last")

NextDirty ==
    \/ \E r \in DirtyRequests : BeginFetch("p1", r)
    \/ CheckDirtyStep("p1")
    \/ ListFiles("p1")
    \/ CopyWorkTree("p1")

SpecDirty == InitDirty /\ [][NextDirty]_vars

\* some tracked file lies beneath the directory
TrackedBeneath(tracked, dir) == \E t \in tracked : HasPrefix(t, dir \o Slash)

\* C11: the dirty copy takes exactly these paths of the working tree: what is no
\* directory if and only if it is a tracked file, and a directory if and only if
\* a tracked file lies beneath it.
C11_DirtyTreeFiltering ==
    \A p \in Procs :
        LET f == fs[p]
        IN  (f.pc = "done" /\ f.path = "dirty")
                => f.copied =
                      { q \in DOMAIN work.tree :
                          IF work.tree[q] = "directory"
                          THEN TrackedBeneath(work.tracked, q)
                          ELSE q \in work.tracked }

\* the directory "a" was taken for the tracked a/b although the tracked "a."
\* sorts between "a" and "a/", and the untracked "a0" was left out
C11_Witness ==
    \E p \in Procs :
        LET f == fs[p]
        IN  /\ f.pc = "done" /\ f.path = "dirty"
            /\ work.tracked = {PathAd, PathAB}
            /\ DOMAIN work.tree = {PathA, PathAd, PathA0, PathAB}
            /\ f.copied = {PathA, PathAd, PathAB}


(***************************************************************************)
(* FSInputAccessor (src/libfetchers/input-accessor.cc): an accessor over   *)
(* the directory `root` of a file system, with or without a set of allowed *)
(* paths. Paths are strings; canonPath and isDirOrInDir work on them.      *)
(***************************************************************************)
\* the components of a path: what lies between its slashes
RECURSIVE SplitPath(_)
SplitPath(s) ==
    IF s = <<>> THEN <<>>
    ELSE IF Head(s) = "/" THEN SplitPath(Tail(s))
    ELSE LET n == IF \E i \in 1..Len(s) : s[i] = "/"
                  THEN CHOOSE i \in 1..Len(s) :
                          s[i] = "/" /\ \A j \in 1..(i - 1) : s[j] # "/"
                  ELSE Len(s) + 1
         IN  <<SubSeq(s, 1, n - 1)>> \o SplitPath(SubSeq(s, n, Len(s)))

Dot == <<".">>
DotDot == <<".", ".">>

\* "." is dropped, ".." drops the component before it (none at the top)
RECURSIVE Canon(_, _)
Canon(comps, acc) ==
    IF comps = <<>> THEN acc
    ELSE LET c == Head(comps)
         IN  IF c = Dot THEN Canon(Tail(comps), acc)
             ELSE IF c = DotDot
             THEN Canon(Tail(comps),
                        IF acc = <<>> THEN <<>> ELSE SubSeq(acc, 1, Len(acc) - 1))
             ELSE Canon(Tail(comps), Append(acc, c))

RECURSIVE JoinPath(_)
JoinPath(comps) ==
    IF comps = <<>> THEN <<>> ELSE Slash \o Head(comps) \o JoinPath(Tail(comps))

\* canonPath(path), symbolic links not resolved: "/" for the top directory
CanonPath(s) ==
    LET comps == Canon(SplitPath(s), <<>>)
    IN  IF comps = <<>> THEN Slash ELSE JoinPath(comps)

\* isInDir(path, dir) and isDirOrInDir(path, dir)
IsInDir(path, dir) ==
    /\ HasPrefix(path, dir)
    /\ Len(path) >= Len(dir) + 2
    /\ path[Len(dir) + 1] = "/"

IsDirOrInDir(path, dir) == path = dir \/ IsInDir(path, dir)

\* std::optional<PathSet> allowedPaths: absent, or a set of paths
NoAllowedPaths == [has |-> FALSE, paths |-> {}]
AllowedPaths(paths) == [has |-> TRUE, paths |-> paths]

\* FSInputAccessor::isAllowed(absPath)
IsAllowed(acc, absPath) ==
    IF ~IsDirOrInDir(absPath, acc.root) THEN FALSE
    ELSE IF ~acc.allowedPaths.has THEN TRUE
    ELSE LET sub0 == SubSeq(absPath, Len(acc.root) + 1, Len(absPath))
             subPath == IF HasPrefix(sub0, Slash) THEN Tail(sub0) ELSE sub0
             allowed == SetInOrder(acc.allowedPaths.paths)
             lb == LowerBound(allowed, subPath)
         IN  IF subPath = <<>> THEN TRUE
             ELSE ~ \/ lb = Len(allowed) + 1
                    \/ ~IsDirOrInDir(Slash \o allowed[lb], Slash \o subPath)

\* the path as it was given, below the root
MakeAbsPath_AsGiven(acc, path) == acc.root \o path

\* FSInputAccessor::makeAbsPath(path): canonPath(root + path)
MakeAbsPath(acc, path) == CanonPath(acc.root \o path)

(***************************************************************************)
(* The file system the accessor reads, with absolute paths. The accessor's *)
(* root is /a; /a., /a0 and /b lie outside it. /a/0 is a symbolic link.    *)
(***************************************************************************)
Root      == <<"/", "a">>
FsSub     == <<"/", "a", "/", "a">>
FsSubX    == <<"/", "a", "/", "a", "/", "a">>
FsSubY    == <<"/", "a", "/", "a", "/", "b">>
FsFile    == <<"/", "a", "/", "b">>
FsDotted  == <<"/", "a", "/", "a", ".">>
FsLink    == <<"/", "a", "/", "0">>
OutDotted == <<"/", "a", ".">>
OutZero   == <<"/", "a", "0">>
OutB      == <<"/", "b">>

FileSystem ==
    [q \in {Slash, Root, FsSub, FsSubX, FsSubY, FsFile, FsDotted, FsLink,
            OutDotted, OutZero, OutB} |->
        IF q \in {Slash, Root, FsSub} THEN "directory"
        ELSE IF q = FsLink THEN "symlink" ELSE "regular"]

LinkTargets == [q \in {FsLink} |-> OutB]

\* nix::readFile(absPath): open(2) follows a symbolic link
NixReadFile(tree, absPath) ==
    LET file == IF absPath \in DOMAIN tree /\ tree[absPath] = "symlink"
                THEN LinkTargets[absPath] ELSE absPath
    IN  IF file \notin DOMAIN tree THEN [kind |-> "NotFound"]
        ELSE IF tree[file] = "directory" THEN [kind |-> "IsADirectory"]
        ELSE [kind |-> "contents", value |-> file]

\* the regular files with S_IXUSR set
Executables == {FsFile}

\* nix::lstat(absPath), and what FSInputAccessor::lstat makes of st_mode
NixLstat(tree, absPath) ==
    IF absPath \notin DOMAIN tree THEN [kind |-> "NotFound"]
    ELSE [kind |-> "stat", value |-> tree[absPath],
          isExecutable |-> tree[absPath] = "regular" /\ absPath \in Executables]

\* nix::readLink(absPath)
NixReadLink(tree, absPath) ==
    IF absPath \notin DOMAIN tree THEN [kind |-> "NotFound"]
    ELSE IF tree[absPath] # "symlink" THEN [kind |-> "NotALink"]
    ELSE [kind |-> "target", value |-> LinkTargets[absPath]]

\* throw Error("access to path '%s' is not allowed", absPath)
AccessDenied == [kind |-> "AccessDenied"]

\* the path a caller gives for a file below the root, and the root-relative
\* path an allow-list gives for it
ArgOf(absPath) == SubSeq(absPath, Len(Root) + 1, Len(absPath))
RelOf(absPath) == SubSeq(absPath, Len(Root) + 2, Len(absPath))

\* a path under the regular file /a/a/a
FsUnderX == FsSubX \o <<"/", "a">>

\* the paths the callers ask for: what lies in the root, ways out of it by "..",
\* and one path that does not begin with "/"
Args ==
    { Slash }
    \cup { ArgOf(q) : q \in {FsSub, FsSubX, FsSubY, FsFile, FsDotted, FsLink, FsUnderX} }
    \cup { <<"/", ".", ".">>, <<"/", ".", ".", "/", "b">>,
           <<"/", ".", ".", "/", "a", "0">>, <<"/", ".", ".", "/", "a", ".">>,
           <<"/", "a", "/", ".", ".", "/", ".", ".", "/", "b">>,
           <<"/", ".", ".", "/", "a", "/", "b">>, <<"/", ".", "/", "b">>,
           <<"b">> }

\* the entries an allow-list may hold
AllowEntries == { RelOf(q) : q \in {FsSub, FsSubX, FsDotted, FsFile} }

NoAccessor == [root |-> <<>>, allowedPaths |-> NoAllowedPaths]
NoAnswer == [kind |-> "none"]
IdleCall == [pc |-> "none", accessor |-> NoAccessor, op |-> "none", arg |-> <<>>,
             answer |-> NoAnswer,
             excluded |-> {},   \* dumpPath: the names its filter rejects
             read |-> <<>>]     \* dumpPath: the order the directories were read in

\* makeFSInputAccessor(root, allowedPaths); the constructor asserts that no
\* allowed path begins or ends with "/"
MakeFSInputAccessor(p, root, allowedPaths) ==
    /\ fs[p].pc = "none"
    /\ \A e \in allowedPaths.paths : ~HasPrefix(e, Slash) /\ e[Len(e)] # "/"
    /\ fs' = [fs EXCEPT ![p] = [IdleCall EXCEPT
                  !.pc = "ready",
                  !.accessor = [root |-> root, allowedPaths |-> allowedPaths]]]
    /\ UNCHANGED <<clock, settings, upstream, mirror, work, lockHolder, cache, hist>>

\* one call of the accessor; makeAbsPath asserts hasPrefix(path, "/")
Call(p, op, path, answer) ==
    /\ fs[p].pc = "ready"
    /\ fs' = [fs EXCEPT ![p] = [@ EXCEPT
                  !.op = op, !.arg = path, !.excluded = {}, !.read = <<>>,
                  !.answer = IF HasPrefix(path, Slash) THEN answer
                             ELSE [kind |-> "AssertionFailed"]]]
    /\ UNCHANGED <<clock, settings, upstream, mirror, work, lockHolder, cache, hist>>

\* the name of an entry: what follows the last slash
BaseName(q) == LET comps == SplitPath(q) IN comps[Len(comps)]

\* FSInputAccessor::readFile(path)
FsReadFile(acc, tree, path) ==
    LET absPath == MakeAbsPath(acc, path)
    IN  IF ~IsAllowed(acc, absPath) THEN AccessDenied
        ELSE NixReadFile(tree, absPath)

\* FSInputAccessor::pathExists(path)
FsPathExists(acc, tree, path) ==
    LET absPath == MakeAbsPath(acc, path)
    IN  [kind |-> "exists",
         value |-> IsAllowed(acc, absPath) /\ absPath \in DOMAIN tree]

\* FSInputAccessor::lstat(path)
FsLstat(acc, tree, path) ==
    LET absPath == MakeAbsPath(acc, path)
    IN  IF ~IsAllowed(acc, absPath) THEN AccessDenied
        ELSE NixLstat(tree, absPath)

\* FSInputAccessor::readDirectory(path): the names of the entries that are allowed
FsReadDirectory(acc, tree, path) ==
    LET absPath == MakeAbsPath(acc, path)
    IN  IF ~IsAllowed(acc, absPath) THEN AccessDenied
        ELSE IF absPath \notin DOMAIN tree THEN [kind |-> "NotFound"]
        ELSE IF tree[absPath] # "directory" THEN [kind |-> "NotADirectory"]
        ELSE [kind |-> "entries",
              value |-> { BaseName(q) : q \in { e \in Entries(tree, absPath) :
                                                  IsAllowed(acc, e) } }]

\* FSInputAccessor::readLink(path)
FsReadLink(acc, tree, path) ==
    LET absPath == MakeAbsPath(acc, path)
    IN  IF ~IsAllowed(acc, absPath) THEN AccessDenied
        ELSE NixReadLink(tree, absPath)

ReadFile(p, path) ==
    Call(p, "readFile", path, FsReadFile(fs[p].accessor, work.tree, path))

PathExists(p, path) ==
    Call(p, "pathExists", path, FsPathExists(fs[p].accessor, work.tree, path))

Lstat(p, path) ==
    Call(p, "lstat", path, FsLstat(fs[p].accessor, work.tree, path))

ReadDirectory(p, path) ==
    Call(p, "readDirectory", path, FsReadDirectory(fs[p].accessor, work.tree, path))

ReadLink(p, path) ==
    Call(p, "readLink", path, FsReadLink(fs[p].accessor, work.tree, path))

InitAccessor ==
    /\ clock = 0
    /\ lockHolder = NoProc
    /\ cache = EmptyCache
    /\ fs = [p \in Procs |-> IdleCall]
    /\ work = [NoWork EXCEPT !.tree = FileSystem]
    /\ settings = [tarballTtl |-> TtlLarge, allowDirty |-> TRUE, warnDirty |-> FALSE]
    /\ upstream = [r \in {"main"} |-> 1]
    /\ mirror = NoMirror
    /\ hist = InitHist(0, 0, "last")

NextAccessor ==
    \/ \E allowedPaths \in {NoAllowedPaths}
                             \cup { AllowedPaths(S) : S \in SUBSET AllowEntries } :
          MakeFSInputAccessor("p1", Root, allowedPaths)
    \/ \E path \in Args : ReadFile("p1", path)
    \/ \E path \in Args : PathExists("p1", path)
    \/ \E path \in Args : Lstat("p1", path)
    \/ \E path \in Args : ReadDirectory("p1", path)
    \/ \E path \in Args : ReadLink("p1", path)

SpecAccessor == InitAccessor /\ [][NextAccessor]_vars

\* where root + path leads, component by component
Resolved(acc, path) == Canon(SplitPath(acc.root) \o SplitPath(path), <<>>)

\* the path leads out of the root
Outside(acc, path) ==
    LET to == Resolved(acc, path)
        root == SplitPath(acc.root)
    IN  ~(Len(to) >= Len(root) /\ SubSeq(to, 1, Len(root)) = root)

\* C12: no operation of an accessor rooted at R answers for a path that leads
\* outside R: readFile, lstat, readDirectory and readLink are denied, pathExists
\* says no; and with the allow-list {"sub/x"} readFile("/sub/x") is permitted and
\* readFile("/sub/y") is denied.
C12_SandboxContainment ==
    \A p \in Procs :
        LET f == fs[p]
        IN  /\ (f.op # "none" /\ Outside(f.accessor, f.arg))
                  => /\ f.answer.kind \notin {"contents", "stat", "entries", "target"}
                     /\ f.answer.kind = "exists" => ~f.answer.value
                     /\ HasPrefix(f.arg, Slash) =>
                           f.answer.kind \in {"AccessDenied", "exists"}
            /\ (f.op = "readFile" /\ f.accessor.allowedPaths = AllowedPaths({RelOf(FsSubX)}))
                  => /\ f.arg = ArgOf(FsSubX) =>
                           f.answer = [kind |-> "contents", value |-> FsSubX]
                     /\ f.arg = ArgOf(FsSubY) => f.answer = AccessDenied

\* stat("/../a0") was denied: /a0 exists and begins with the root's name
C12_Witness ==
    \E p \in Procs :
        LET f == fs[p]
        IN  /\ f.op = "lstat" /\ f.arg = <<"/", ".", ".", "/", "a", "0">>
            /\ MakeAbsPath(f.accessor, f.arg) = OutZero
            /\ OutZero \in DOMAIN work.tree
            /\ f.answer = AccessDenied

\* the root-relative path the call leads to, as components
RelComps(acc, path) ==
    LET to == Resolved(acc, path)
    IN  SubSeq(to, Len(SplitPath(acc.root)) + 1, Len(to))

\* the path is the entry or lies beneath it
AtOrUnder(comps, entry) ==
    LET e == SplitPath(entry)
    IN  Len(e) <= Len(comps) /\ SubSeq(comps, 1, Len(e)) = e

\* the call shows whether its path is allowed: pathExists does if the path exists
Telling(f) ==
    /\ f.op # "none" /\ HasPrefix(f.arg, Slash)
    /\ f.op = "pathExists" => MakeAbsPath(f.accessor, f.arg) \in DOMAIN work.tree

\* the operation was not refused
Permitted(f) ==
    IF f.op = "pathExists" THEN f.answer.value ELSE f.answer # AccessDenied

\* C13: with an allow-list, a path below the root is allowed if and only if its
\* root-relative path is an entry of the list or lies beneath one.
C13_AllowListMembership ==
    \A p \in Procs :
        LET f == fs[p]
        IN  (/\ Telling(f)
             /\ f.accessor.allowedPaths.has
             /\ ~Outside(f.accessor, f.arg)
             /\ RelComps(f.accessor, f.arg) # <<>>)
                => (Permitted(f) <=>
                        \E e \in f.accessor.allowedPaths.paths :
                            AtOrUnder(RelComps(f.accessor, f.arg), e))


(***************************************************************************)
(* InputAccessor::dumpPath: the encoding of the tree below a path as a     *)
(* sequence of strings written to the sink. A string written is a token;   *)
(* a number is written as a tally.                                         *)
(***************************************************************************)
NarVersionMagic1 == "nix-archive-1"

Lit(str) == <<str>>
Tally(n) == [i \in 1..n |-> "1"]
ErrorToken(kind) == <<"!", kind>>

\* the names of a directory as the file system hands them out: in the order in
\* which they stand in `order`, a sequence that holds every name once
ReadInOrder(names, order) == SelectSeq(order, LAMBDA n : n \in names)

\* the filter: the paths that are not in `excluded` and whose last name is
\* not in `excluded`
Filter(excluded, path) == BaseName(path) \notin excluded /\ path \notin excluded

\* the filter is asked about the name alone
FilterArg_Name(path, name) == Slash \o name

\* what the filter is asked about: path + "/" + i.first
FilterArg(path, name) == path \o Slash \o name

\* a map that hands out its keys in the order they were inserted in
StdMap_AsInserted(inserted) == inserted

\* std::map: the keys inserted, iterated in the order of the keys
StdMap(inserted) == SetInOrder({ inserted[i] : i \in 1..Len(inserted) })

\* DirEntries res of FSInputAccessor::readDirectory: a std::map filled with
\* the entries in the order nix::readDirectory hands them out
DirEntries(names, order) == StdMap(ReadInOrder(names, order))

\* std::map<string, string> unhacked: filled by the first loop over the
\* entries, iterated by the second
Unhacked(entries) == StdMap(entries)

\* dumpContents(path)
DumpContents(acc, tree, path) ==
    LET s == FsReadFile(acc, tree, path)
    IN  IF s.kind # "contents" THEN <<ErrorToken(s.kind)>>
        ELSE <<Lit("contents"), Tally(Len(s.value)), s.value>>

RECURSIVE Dump(_, _, _, _, _)
RECURSIVE DumpEntries(_, _, _, _, _, _)

\* the second loop of dump over a directory: for (auto & i : unhacked)
DumpEntries(acc, tree, path, excluded, order, names) ==
    IF names = <<>> THEN <<>>
    ELSE LET name == Head(names)
             child == path \o Slash \o name
         IN  (IF Filter(excluded, FilterArg(path, name))
              THEN <<Lit("entry"), Lit("("), Lit("name"), name, Lit("node")>>
                       \o Dump(acc, tree, child, excluded, order)
                       \o <<Lit(")")>>
              ELSE <<>>)
             \o DumpEntries(acc, tree, path, excluded, order, Tail(names))

\* dump(path)
Dump(acc, tree, path, excluded, order) ==
    LET st == FsLstat(acc, tree, path)
    IN  IF st.kind # "stat" THEN <<ErrorToken(st.kind)>>
        ELSE <<Lit("(")>> \o
             (IF st.value = "regular"
              THEN <<Lit("type"), Lit("regular")>>
                     \o (IF st.isExecutable THEN <<Lit("executable"), Lit("")>>
                         ELSE <<>>)
                     \o DumpContents(acc, tree, path)
              ELSE IF st.value = "directory"
              THEN LET entries == FsReadDirectory(acc, tree, path)
                   IN  IF entries.kind # "entries" THEN <<ErrorToken(entries.kind)>>
                       ELSE <<Lit("type"), Lit("directory")>>
                              \o DumpEntries(acc, tree, path, excluded, order,
                                    Unhacked(DirEntries(entries.value, order)))
              ELSE IF st.value = "symlink"
              THEN LET target == FsReadLink(acc, tree, path)
                   IN  IF target.kind # "target" THEN <<ErrorToken(target.kind)>>
                       ELSE <<Lit("type"), Lit("symlink"), Lit("target"), target.value>>
              ELSE <<ErrorToken("UnsupportedFileType")>>)
             \o <<Lit(")")>>

\* what dumpPath leaves in the sink, or the error it throws
DumpAnswer(acc, tree, path, excluded, order) ==
    LET out == <<Lit(NarVersionMagic1)>> \o Dump(acc, tree, path, excluded, order)
        errors == { i \in 1..Len(out) : out[i][1] = "!" }
    IN  IF errors = {} THEN [kind |-> "nar", value |-> out]
        ELSE [kind |-> out[CHOOSE i \in errors : \A j \in errors : i <= j][2]]

\* the names of the file system, and the orders they may be read in
Names == { BaseName(q) : q \in { e \in DOMAIN FileSystem : IsInDir(e, Root) } }
Rotated(s, k) == [i \in 1..Len(s) |-> s[((i + k - 1) % Len(s)) + 1]]
Reversed(s) == [i \in 1..Len(s) |-> s[Len(s) + 1 - i]]
ReadOrders ==
    LET sorted == SetInOrder(Names)
    IN  { Rotated(sorted, k) : k \in 0..1 } \cup {Reversed(sorted)}

\* accessor.dumpPath(path, sink, filter) is called
DumpPath(p, path, excluded, order) ==
    /\ fs[p].pc = "ready"
    /\ fs' = [fs EXCEPT ![p] = [@ EXCEPT
                  !.op = "dumpPath", !.arg = path, !.excluded = excluded,
                  !.read = ReadInOrder(Names, order),
                  !.answer = DumpAnswer(fs[p].accessor, work.tree, path, excluded,
                                        order)]]
    /\ UNCHANGED <<clock, settings, upstream, mirror, work, lockHolder, cache, hist>>

\* the filters: every entry passes, one name is rejected, or one path is
Filters == { {}, {<<"b">>}, {<<"a">>}, {<<"/", "a", "/", "b">>} }

\* the file system with a named pipe in the directory /a/a
FsPipe == <<"/", "a", "/", "a", "/", "0">>
PipeSystem == [q \in DOMAIN FileSystem \cup {FsPipe} |->
                  IF q = FsPipe THEN "misc" ELSE FileSystem[q]]

InitEncode ==
    /\ clock = 0
    /\ lockHolder = NoProc
    /\ cache = EmptyCache
    /\ fs = [p \in Procs |-> IdleCall]
    /\ \E tree \in {FileSystem, PipeSystem} : work = [NoWork EXCEPT !.tree = tree]
    /\ settings = [tarballTtl |-> TtlLarge, allowDirty |-> TRUE, warnDirty |-> FALSE]
    /\ upstream = [r \in {"main"} |-> 1]
    /\ mirror = NoMirror
    /\ hist = InitHist(0, 0, "last")

NextEncode ==
    \E p \in Procs :
        \/ \E allowedPaths \in {NoAllowedPaths,
                                AllowedPaths({RelOf(FsSubX), RelOf(FsFile)})} :
              MakeFSInputAccessor(p, Root, allowedPaths)
        \/ \E path \in {Slash, ArgOf(FsSub)}, excluded \in Filters, order \in ReadOrders :
              DumpPath(p, path, excluded, order)

SpecEncode == InitEncode /\ [][NextEncode]_vars

\* how many parentheses are open before a position of an encoding
DepthAt(tokens, i) ==
    Cardinality({ j \in 1..(i - 1) : tokens[j] = Lit("(") })
      - Cardinality({ j \in 1..(i - 1) : tokens[j] = Lit(")") })

\* the positions of the names of the children of the dumped directory
TopNames(p) ==
    LET tokens == fs[p].answer.value
    IN  { i \in 2..Len(tokens) : tokens[i - 1] = Lit("name") /\ DepthAt(tokens, i) = 2 }

\* the children stand in the ascending order of their names
Ascending(p) ==
    \A i \in TopNames(p), j \in TopNames(p) :
        i < j => StrLess(fs[p].answer.value[i], fs[p].answer.value[j])

Dumped(p) == fs[p].op = "dumpPath"

\* C14: two encodings of the same tree through the same accessor, from the
\* same path and with the same filter, leave the same bytes in the sink (or
\* fail alike) whatever order the directories were read in, and the children
\* of a directory are emitted in the ascending order of their names.
C14_EncodingDeterminism ==
    /\ \A p \in Procs, q \in Procs :
          ( /\ Dumped(p) /\ Dumped(q)
            /\ fs[p].accessor = fs[q].accessor
            /\ fs[p].arg = fs[q].arg
            /\ fs[p].excluded = fs[q].excluded )
          => fs[p].answer = fs[q].answer
    /\ \A p \in Procs :
          (Dumped(p) /\ fs[p].answer.kind = "nar") => Ascending(p)

\* two encodings of the root directory, read in different orders, both with
\* several children, and identical
C14_Witness ==
    /\ Dumped("p1") /\ Dumped("p2")
    /\ fs["p1"].accessor = fs["p2"].accessor
    /\ fs["p1"].arg = Slash /\ fs["p2"].arg = Slash
    /\ fs["p1"].excluded = fs["p2"].excluded
    /\ fs["p1"].read # fs["p2"].read
    /\ fs["p1"].answer.kind = "nar"
    /\ Cardinality(TopNames("p1")) >= 3
    /\ fs["p1"].answer = fs["p2"].answer


(***************************************************************************)
(* GitInputScheme::inputFromAttrs and applyOverrides. An attribute set is  *)
(* a record of the attributes it may hold; Absent marks one it lacks.      *)
(* `other` is the name of an attribute the scheme does not know.           *)
(***************************************************************************)
Absent == "absent"

Contains(s, part) ==
    \E i \in 1..(Len(s) - Len(part) + 1) : SubSeq(s, i, i + Len(part) - 1) = part

\* badGitRefRegex, as far as the alphabet reaches: an empty name, "//", a
\* leading "." or "/", "/.", "..", a trailing "/" or "."
BadGitRef(ref) ==
    \/ ref = <<>>
    \/ Contains(ref, <<"/", "/">>) \/ Contains(ref, <<"/", ".">>)
    \/ Contains(ref, <<".", ".">>)
    \/ ref[1] \in {".", "/"}
    \/ ref[Len(ref)] \in {".", "/"}

\* std::optional<std::string> ref
NoRefAttr == [has |-> FALSE, name |-> <<>>]
RefAttr(name) == [has |-> TRUE, name |-> name]

AttrRefs == { RefAttr(n) : n \in { <<"a">>, <<"a", "/", "b">>, <<".", "a">>,
                                   <<"a", ".", ".", "b">> } }
AttrRevs == { "rev1", "rev2" }

AttrSets ==
    [type : {Absent, "git", "path"}, url : {Absent, "url"},
     ref : {NoRefAttr} \cup AttrRefs, rev : {Absent, "rev1"},
     other : {Absent, "dir"}]

NoInput == [type |-> Absent, url |-> Absent, ref |-> NoRefAttr, rev |-> Absent,
            other |-> Absent]

IdleInput == [pc |-> "none", input |-> NoInput, error |-> "none", by |-> "none"]

\* inputFromAttrs(attrs): no input for another scheme, an error for an
\* attribute the scheme does not know, a missing url or a bad ref name, the
\* attributes as they are otherwise
InputFromAttrs(p, attrs) ==
    /\ fs[p].pc = "none"
    /\ fs' = [fs EXCEPT ![p] =
          IF attrs.type # "git"
          THEN [IdleInput EXCEPT !.pc = "noInput", !.by = "inputFromAttrs"]
          ELSE IF attrs.other # Absent \/ attrs.url = Absent
          THEN [IdleInput EXCEPT !.pc = "rejected", !.error = "Error",
                                 !.by = "inputFromAttrs"]
          ELSE IF attrs.ref.has /\ BadGitRef(attrs.ref.name)
          THEN [IdleInput EXCEPT !.pc = "rejected", !.error = "BadURL",
                                 !.by = "inputFromAttrs"]
          ELSE [IdleInput EXCEPT !.pc = "accepted", !.input = attrs,
                                 !.by = "inputFromAttrs"]]
    /\ UNCHANGED <<clock, settings, upstream, mirror, work, lockHolder, cache, hist>>

\* the test of applyOverrides left out
RevWithoutRef_Never(res) == FALSE

\* !res.getRef() && res.getRev()
RevWithoutRef(res) == ~res.ref.has /\ res.rev # Absent

\* applyOverrides(input, ref, rev)
ApplyOverrides(p, ref, rev) ==
    /\ fs[p].pc = "accepted"
    /\ LET res == [fs[p].input EXCEPT
                      !.rev = IF rev # Absent THEN rev ELSE @,
                      !.ref = IF ref.has THEN ref ELSE @]
       IN  fs' = [fs EXCEPT ![p] =
                     IF RevWithoutRef(res)
                     THEN [IdleInput EXCEPT !.pc = "rejected", !.error = "Error",
                                            !.by = "applyOverrides"]
                     ELSE [IdleInput EXCEPT !.pc = "accepted", !.input = res,
                                            !.by = "applyOverrides"]]
    /\ UNCHANGED <<clock, settings, upstream, mirror, work, lockHolder, cache, hist>>

InitParse ==
    /\ clock = 0
    /\ lockHolder = NoProc
    /\ cache = EmptyCache
    /\ fs = [p \in Procs |-> IdleInput]
    /\ work = NoWork
    /\ settings = [tarballTtl |-> TtlLarge, allowDirty |-> TRUE, warnDirty |-> FALSE]
    /\ upstream = [r \in {"main"} |-> 1]
    /\ mirror = NoMirror
    /\ hist = InitHist(0, 0, "last")

NextParse ==
    \E p \in Procs :
        \/ \E attrs \in AttrSets : InputFromAttrs(p, attrs)
        \/ \E ref \in {NoRefAttr, RefAttr(<<"a">>)}, rev \in {Absent} \cup AttrRevs :
              ApplyOverrides(p, ref, rev)

SpecParse == InitParse /\ [][NextParse]_vars

Accepted(p) == fs[p].pc = "accepted"

\* C15: every input accepted by inputFromAttrs or by applyOverrides that
\* carries a rev carries a ref.
C15_RevImpliesRef ==
    \A p \in Procs : Accepted(p) => (fs[p].input.rev # Absent => fs[p].input.ref.has)

\* the part of C15 that holds: applyOverrides accepts no rev without a ref
C15_OverridesRevImpliesRef ==
    \A p \in Procs :
        (Accepted(p) /\ fs[p].by = "applyOverrides")
            => (fs[p].input.rev # Absent => fs[p].input.ref.has)


(***************************************************************************)
(* A remote repository with two branches: "main" is one commit ahead of    *)
(* "dev". Fetches follow one another, and the network works.               *)
(***************************************************************************)
\* how many fetches may be started in one behaviour of the model of two branches
MaxRefFetches == 2

RefRequests ==
    { Request(RemoteUrl, ref, rev, FALSE, FALSE, FALSE) :
        ref \in {"main", "dev"}, rev \in {NoRev} \cup Revs }

InitRefs ==
    /\ InitCommon
    /\ settings = [tarballTtl |-> TtlLarge, allowDirty |-> TRUE, warnDirty |-> TRUE]
    /\ upstream = [r \in {"main", "dev"} |-> IF r = "main" THEN 2 ELSE 1]
    /\ mirror = NoMirror
    /\ hist = InitHist(MaxRefFetches, 0, "last")

NextRefs ==
    \/ \E r \in RefRequests : BeginFetch("p1", r)
    \/ MutLookup("p1")
    \/ Acquire("p1")
    \/ GitInit("p1")
    \/ Decide("p1")
    \/ FetchOk("p1")
    \/ ReadRef("p1")
    \/ RevisionCheck("p1")
    \/ Extract("p1")
    \/ WriteMut("p1")
    \/ WriteImm("p1")

SpecRefs == InitRefs /\ [][NextRefs]_vars

\* the request names a ref and a rev that is not among the commits of that ref
AbsentFromRef(f) ==
    /\ Pinned(f) /\ f.orig.ref # NoRef
    /\ f.orig.rev \notin Anc(upstream[f.orig.ref])

\* C16: a fetch that pins a rev together with a ref, where the rev is not a
\* commit of that ref, ends with RevisionNotFound and writes no cache entry.
C16_RevisionNotFound ==
    \A p \in Procs :
        LET f == fs[p]
        IN  (AbsentFromRef(f) /\ f.pc \in {"done", "failed"})
                => /\ f.pc = "failed" /\ f.err = "RevisionNotFound"
                   /\ ~f.wroteMut /\ ~f.wroteImm

\* what holds of C16: when the mirror does not hold the rev after the refresh
\* of the ref, the fetch ends with RevisionNotFound and has written no entry
C16_AbsentFromMirror ==
    \A p \in Procs :
        LET f == fs[p]
        IN  (f.pc = "failed" /\ f.err = "RevisionNotFound")
                => /\ Pinned(f) /\ f.orig.rev \notin mirror.objects
                   /\ ~f.wroteMut /\ ~f.wroteImm


(***************************************************************************)
(* The fields of the input that fetch returns, on every way it returns.    *)
(***************************************************************************)
\* fetch returned (directly, or as the fetch behind InputScheme::lazyFetch)
FetchReturned(f) == f.pc = "done" /\ f.path # "accessor"

HasLastModified(result) == result.lastModified # Never
HasRevCount(result) == result.revCount # NoCount

\* C17 as stated: the input returned by every successful fetch carries
\* lastModified and, unless shallow was requested, revCount, the copy of a
\* dirty working tree included.
C17_ResolvedFields ==
    \A p \in Procs :
        LET f == fs[p]
        IN  FetchReturned(f)
                => /\ HasLastModified(f.result)
                   /\ ~f.orig.shallow => HasRevCount(f.result)

\* C17: the input returned by every successful fetch carries lastModified,
\* and it carries revCount unless shallow was requested or the result is the
\* copy of a dirty working tree.
C17_ResolvedFieldsButDirty ==
    \A p \in Procs :
        LET f == fs[p]
        IN  FetchReturned(f)
                => /\ HasLastModified(f.result)
                   /\ (~f.orig.shallow /\ f.path # "dirty") => HasRevCount(f.result)

\* a fetch without shallow was answered from the immutable cache and carries
\* both fields
C17_Witness ==
    \E p \in Procs :
        LET f == fs[p]
        IN  /\ FetchReturned(f) /\ f.path = "immutable" /\ ~f.orig.shallow
            /\ HasLastModified(f.result) /\ HasRevCount(f.result)


(***************************************************************************)
(* The mutable cache and the resolution of the ref.                        *)
(***************************************************************************)
\* the cache holds a valid mutable entry for the (url, ref) of fetch g, and
\* the entry's rev is the one requested, if one was requested
UsableMutableHit(g) ==
    /\ MutHit(cache, MutableKey(g), clock, settings.tarballTtl)
    /\ g.orig.rev \in {NoRev, cache.mut[MutableKey(g)].infoAttrs.rev}

\* the step by which the fetch of p turns to the mirror (remote) or has
\* git rev-parse resolve the ref in the working copy (local)
Resolves(p) ==
    \/ fs[p].pc = "mutLookup" /\ fs'[p].pc = "lock"
    \/ ~InFlight(fs[p]) /\ fs'[p].pc = "shallowCheck"

\* the step by which the fetch of p returns the entry of the mutable cache
ReturnsMutable(p) ==
    fs[p].pc = "mutLookup" /\ fs'[p].pc = "done" /\ fs'[p].path = "mutable"

ShortCircuit(p) ==
    /\ Resolves(p) => ~UsableMutableHit(fs'[p])
    /\ ReturnsMutable(p)
          => /\ UsableMutableHit([fs[p] EXCEPT !.rev = fs[p].orig.rev])
             /\ fs'[p].result.rev = cache.mut[MutableKey(fs[p])].infoAttrs.rev
             /\ fs'[p].result.storePath = cache.mut[MutableKey(fs[p])].storePath

\* C18: a fetch of a clean source, local or remote, resolves its ref (mirror
\* access, or the revision lookup in the working copy) only if the mutable
\* cache holds no valid entry for (type, name, url, ref) that it may use; it
\* returns the mutable entry only if the entry is valid and its rev is the
\* requested one, if any.
C18_MutableShortCircuit == [][\A p \in Procs : ShortCircuit(p)]_vars

\* what holds of C18: the same for the fetches from the remote repository
C18_RemoteShortCircuit ==
    [][\A p \in Procs : ~fs'[p].repoInfo.isLocal => ShortCircuit(p)]_vars


(***************************************************************************)
(* The refresh decision of a fetch with a rev.                             *)
(***************************************************************************)
\* the decision of a pinned fetch: git fetch exactly if the mirror lacks the rev
PinnedDecision(p) ==
    LET f == fs[p]
        g == fs'[p]
    IN  (f.pc = "decide" /\ Pinned(f) /\ g.pc \in {"fetch", "readRef"})
            => (g.pc = "fetch" <=> f.rev \notin mirror.objects)

\* a pinned fetch goes to the network only for a rev the mirror lacks
PinnedNetwork(p) ==
    LET f == fs[p]
        g == fs'[p]
    IN  (f.pc = "fetch" /\ Pinned(f) /\ g.net > f.net) => f.rev \notin mirror.objects

\* a pinned fetch that has not been to the network by the time it leaves the
\* section found its rev in the mirror
PinnedQuiet ==
    \A p \in Procs :
        LET f == fs[p]
        IN  (Pinned(f) /\ f.pc \in {"shallowCheck", "extract"} /\ f.net = 0)
                => f.rev \in mirror.objects

\* C19: a fetch from the remote repository with a rev that reaches the mirror
\* refreshes it if and only if the mirror does not hold the rev, whatever the
\* age of the ref marker, ttl and allRefs are; with the rev in the mirror
\* there is no network access.
C19_PinnedRefreshDecision ==
    /\ [][\A p \in Procs : PinnedDecision(p) /\ PinnedNetwork(p)]_vars
    /\ []PinnedQuiet

\* with ttl = 0 and allRefs, a pinned fetch found its rev in the mirror, went
\* through extraction and was never on the network
C19_Witness ==
    \E p \in Procs :
        LET f == fs[p]
        IN  /\ f.pc = "done" /\ Pinned(f) /\ f.orig.allRefs
            /\ settings.tarballTtl = 0
            /\ f.path = "extracted" /\ f.net = 0


(***************************************************************************)
(* The time the ref marker records.                                        *)
(***************************************************************************)
\* a refresh after which the fetch goes on (git fetch succeeded, or failed
\* and the stale marker is used) leaves the marker of the ref with the time
\* `now` that the fetch read before the attempt
AttemptStamps(p) ==
    (fs[p].pc = "fetch" /\ fs'[p].pc = "readRef")
        => /\ HasMarker(mirror', fs[p].ref)
           /\ mirror'.marker[fs[p].ref].mtime = fs[p].now

\* a refresh that ends the fetch with FetchFailed leaves the markers alone
AbortKeeps(p) ==
    (fs[p].pc = "fetch" /\ fs'[p].pc = "failed" /\ fs'[p].err = "FetchFailed")
        => mirror'.marker = mirror.marker

\* nothing but such a refresh changes a marker
OnlyAttemptsStamp ==
    mirror'.marker # mirror.marker
        => \E p \in Procs : fs[p].pc = "fetch" /\ fs'[p].pc = "readRef"

\* an unpinned fetch (with allRefs in `which`) that reaches the mirror less
\* than ttl after the time on the marker of its ref does not go to the network
FollowingQuiet(p, which) ==
    LET f == fs[p]
    IN  ( /\ f.pc = "decide" /\ ~Pinned(f) /\ f.orig.allRefs \in which
          /\ HasMarker(mirror, f.ref)
          /\ clock - mirror.marker[f.ref].mtime < settings.tarballTtl )
            => fs'[p].pc # "fetch"

MarkerTime(which) ==
    /\ OnlyAttemptsStamp
    /\ \A p \in Procs :
          AttemptStamps(p) /\ AbortKeeps(p) /\ FollowingQuiet(p, which)

\* C20 as stated: after a refresh attempt that does not abort the fetch the
\* marker of the ref carries the time of the attempt, and any unpinned fetch of
\* the ref that follows within ttl stays off the network; an attempt that
\* aborts the fetch with FetchFailed leaves the marker's time unchanged.
C20_AttemptTimeAsStated == [][MarkerTime(BOOLEAN)]_vars

\* C20, amended: the same, for a following unpinned fetch without allRefs
\* (with allRefs every unpinned fetch that reaches the mirror refreshes it).
C20_AttemptTime == [][MarkerTime({FALSE})]_vars

\* an unpinned fetch without allRefs reached the mirror after time had passed
\* since the attempt recorded on the marker, within ttl, and left the section
\* without the network
C20_Witness ==
    \E p \in Procs :
        LET f == fs[p]
        IN  /\ f.pc = "shallowCheck" /\ ~Pinned(f) /\ ~f.orig.allRefs
            /\ f.net = 0 /\ f.fresh
            /\ HasMarker(mirror, f.ref)
            /\ mirror.marker[f.ref].mtime < f.now
            /\ f.now - mirror.marker[f.ref].mtime < settings.tarballTtl


(***************************************************************************)
(* Two processes, two branches of the remote repository at the same        *)
(* commit, and the working copy of the same repository: the second look at *)
(* the immutable cache.                                                    *)
(***************************************************************************)
\* how many fetches may be started in one behaviour of the model of two heads
MaxHeadFetches == 2

HeadRequests ==
    { Request(RemoteUrl, ref, NoRev, FALSE, FALSE, FALSE) : ref \in {"main", "dev"} }
      \cup { Request(LocalUrl, "main", NoRev, FALSE, FALSE, FALSE) }

InitHeads ==
    /\ InitCommon
    /\ settings = [tarballTtl |-> TtlLarge, allowDirty |-> TRUE, warnDirty |-> TRUE]
    /\ upstream = [r \in {"main", "dev"} |-> 1]
    /\ mirror \in {NoMirror,
                   [exists |-> TRUE, shallow |-> TRUE, objects |-> {}, marker |-> <<>>]}
    /\ hist = InitHist(MaxHeadFetches, 0, "last")

NextHeads ==
    \E p \in Procs :
        \/ \E r \in HeadRequests : BeginFetch(p, r)
        \/ MutLookup(p)
        \/ Acquire(p)
        \/ GitInit(p)
        \/ Decide(p)
        \/ FetchOk(p)
        \/ ReadRef(p)
        \/ RevisionCheck(p)
        \/ Extract(p)
        \/ WriteMut(p)
        \/ WriteImm(p)

SpecHeads == InitHeads /\ [][NextHeads]_vars

\* the immutable cache holds an entry for the revision the fetch has resolved
EntryExists(f) == ImmutableKey(f) \in DOMAIN cache.imm

\* the fetch returns that entry, having extracted and ingested nothing
ReturnsEntry(f, g) ==
    /\ g.pc = "done" /\ g.path = "immutable2"
    /\ g.result.storePath = cache.imm[ImmutableKey(f)].storePath
    /\ g.result.lastModified = cache.imm[ImmutableKey(f)].infoAttrs.lastModified
    /\ ~g.ingested

\* the step of the second look, for the fetches whose repository passes
\* the shallow check when `strict`, for all of them otherwise
SecondCheck(p, strict) ==
    LET f == fs[p]
        g == fs'[p]
    IN  (f.pc = "shallowCheck" /\ g # f)
            => /\ (EntryExists(f) /\ (strict => ShallowOk(IsShallow(f), f.repoInfo.shallow)))
                    => ReturnsEntry(f, g)
               /\ g.pc = "extract" => ~EntryExists(f)

\* two fetches that returned the same revision for different refs did not both
\* extract it
OneExtraction ==
    \A p, q \in Procs :
        ( /\ fs[p].pc = "done" /\ fs[q].pc = "done"
          /\ fs[p].orig.ref # fs[q].orig.ref
          /\ fs[p].orig.url = fs[q].orig.url
          /\ fs[p].result.rev = fs[q].result.rev )
            => ~(fs[p].path = "extracted" /\ fs[q].path = "extracted")

\* C21 as stated: once the revision is known, a fetch that finds an immutable
\* entry for (cacheType, name, rev) returns it without extraction and
\* ingestion, and two refs that resolve to the same revision are extracted
\* at most once.
C21_SecondCheckAsStated ==
    /\ [][\A p \in Procs : SecondCheck(p, FALSE)]_vars
    /\ []OneExtraction

\* C21, amended: once the revision is known and the repository has passed the
\* shallow check, a fetch that finds an immutable entry for (cacheType, name,
\* rev) returns it without extraction and ingestion, and a fetch extracts
\* only if it found none.
C21_SecondCheck == [][\A p \in Procs : SecondCheck(p, TRUE)]_vars

\* the fetch of dev returned the entry that the fetch of main had written
C21_Witness ==
    \E p, q \in Procs :
        /\ fs[p].pc = "done" /\ fs[p].path = "extracted" /\ fs[p].orig.ref = "main"
        /\ fs[p].orig.url = RemoteUrl
        /\ fs[q].pc = "done" /\ fs[q].path = "immutable2" /\ fs[q].orig.ref = "dev"
        /\ fs[q].result.rev = fs[p].result.rev
        /\ fs[q].result.storePath = fs[p].result.storePath
        /\ ~fs[q].ingested


(***************************************************************************)
(* The consistency of the cache under concurrent fetches.                  *)
(***************************************************************************)
HasSuffix(type, suffix) == \E i \in 1..Len(type) : type[i] = suffix

\* the entry holds what extraction yields for the revision rev under the
\* fetch modes that the cache type names
EntryOf(entry, type, name, rev) ==
    /\ entry.infoAttrs.rev = rev
    /\ entry.storePath = StorePathOf(name, rev, HasSuffix(type, "-submodules"))
    /\ entry.infoAttrs.lastModified = LastModifiedOf(rev)
    /\ entry.infoAttrs.revCount =
          (IF HasSuffix(type, "-shallow") THEN NoCount ELSE RevCountOf(rev))

\* every immutable entry is that of the rev of its key; every mutable entry
\* is that of one revision, which the marker of its ref has reached
CacheConsistent ==
    /\ \A key \in DOMAIN cache.imm :
          /\ key.rev \in Revs
          /\ EntryOf(cache.imm[key], key.type, key.name, key.rev)
    /\ \A key \in DOMAIN cache.mut :
          LET rev == cache.mut[key].infoAttrs.rev
          IN  /\ rev \in Revs
              /\ EntryOf(cache.mut[key], key.type, key.name, rev)
              /\ HasMarker(mirror, key.ref) /\ rev <= mirror.marker[key.ref].rev

\* the revision of an unpinned fetch is the one on the marker of its ref at
\* the moment the fetch reads it, it does not change while the fetch runs,
\* and a mutable entry is written by such a fetch only, for its ref and rev
HeldRevision ==
    \A p \in Procs :
        LET f == fs[p]
            g == fs'[p]
        IN  /\ (f.pc = "readRef" /\ ~Pinned(f) /\ g.pc = "shallowCheck")
                  => g.rev = mirror.marker[f.ref].rev
            /\ (f.pc \in {"shallowCheck", "extract", "writeMut", "writeImm"}
                  /\ InFlight(g)) => (g.rev = f.rev /\ g.ref = f.ref)
            /\ (f.pc = "writeMut" /\ g # f)
                  => (g.pc = "failed"
                        \/ ( /\ ~Pinned(f)
                             /\ cache'.mut[MutableKey(f)].infoAttrs.rev = f.rev ))

\* C22: under every interleaving of concurrent fetches, each immutable entry
\* keyed (cacheType, name, rev) holds that rev with the store path and the
\* metadata of that revision's tree, and each mutable entry keyed (cacheType,
\* name, url, ref) holds one revision, which the ref held in the mirror when
\* the fetch that wrote it read the marker, with the store path and metadata
\* of that revision's tree.
C22_CacheConsistency == []CacheConsistent /\ [][HeldRevision]_vars

\* the mutable entry of main is still the one of revision 1 while the marker
\* has moved on to revision 2, and both revisions have their immutable entry
C22_Witness ==
    /\ Cardinality(DOMAIN cache.imm) = 2
    /\ \E key \in DOMAIN cache.mut :
          /\ cache.mut[key].infoAttrs.rev = 1
          /\ HasMarker(mirror, key.ref) /\ mirror.marker[key.ref].rev = 2


(***************************************************************************)
(* The assertions of makeResult.                                           *)
(***************************************************************************)
\* C23: no fetch from the remote repository ends on an assertion of
\* makeResult: every one that returns carries a rev, and the rev of the
\* request if the request had one, whatever the mutable cache and the marker
\* of the ref hold.
C23_ResultRevision ==
    \A p \in Procs :
        LET f == fs[p]
        IN  /\ f.err # "AssertionFailed"
            /\ f.pc = "done"
                  => /\ f.result.rev \in Revs
                     /\ Pinned(f) => f.result.rev = f.orig.rev

\* a fetch pinned to revision 1 returned revision 1 while the mutable entry
\* and the marker of its ref were at revision 2
C23_Witness ==
    \E p \in Procs :
        LET f == fs[p]
            key == MutableAttrs(f.repoInfo.cacheType, Name, f.repoInfo.url, f.result.ref)
        IN  /\ f.pc = "done" /\ f.orig.rev = 1 /\ f.result.rev = 1
            /\ f.path = "extracted"
            /\ MutHit(cache, key, clock, settings.tarballTtl)
            /\ cache.mut[key].infoAttrs.rev = 2
            /\ HasMarker(mirror, f.result.ref) /\ mirror.marker[f.result.ref].rev = 2


(***************************************************************************)
(* The mutable entry after an unpinned fetch.                              *)
(***************************************************************************)
\* the unpinned fetches that returned by one of the ways in `paths` left the
\* mutable entry of their (url, ref) at the revision they returned
MutableFollowsVia(paths) ==
    \A p \in Procs :
        LET f == fs[p]
        IN  (f.pc = "done" /\ ~Pinned(f) /\ f.path \in paths) => MutableFollows(f)

\* C24 as stated: after every unpinned fetch from the remote repository that
\* succeeded, the mutable entry of its (cacheType, name, url, ref) exists and
\* holds the revision the fetch returned, whether the result came from the
\* mutable cache, from the second look at the immutable cache, or from
\* extraction.
C24_MutableFollowsAsStated == MutableFollowsVia({"mutable", "immutable2", "extracted"})

\* C24, amended: the same for the results that came from the mutable cache or
\* from extraction; a fetch that returns from the second look at the immutable
\* cache writes nothing.
C24_MutableFollows ==
    /\ []MutableFollowsVia({"mutable", "extracted"})
    /\ [][\A p \in Procs :
            (fs[p].pc = "shallowCheck" /\ fs'[p].pc = "done") => cache' = cache]_vars

\* a fetch of main that had returned revision 1 before was repeated, extracted
\* revision 2 and left the mutable entry at revision 2
C24_Witness ==
    \E p \in Procs :
        LET f == fs[p]
        IN  /\ f.pc = "done" /\ ~Pinned(f) /\ f.path = "extracted"
            /\ f.prior # NoResult /\ f.prior.rev = 1 /\ f.result.rev = 2
            /\ MutableFollows(f)


(***************************************************************************)
(* The allow-list and the way from the root to an allowed path.            *)
(***************************************************************************)
\* the directory named by comps is the root or a proper ancestor of the entry
AncestorOf(comps, entry) ==
    LET e == SplitPath(entry)
    IN  Len(comps) < Len(e) /\ SubSeq(e, 1, Len(comps)) = comps

\* C25: with an allow-list, every operation on the root or on a proper
\* ancestor directory of an entry is permitted, and readDirectory on it lists
\* the child that leads to the entry.
C25_TraversalReachability ==
    \A p \in Procs :
        LET f == fs[p]
            comps == RelComps(f.accessor, f.arg)
        IN  (/\ Telling(f)
             /\ f.accessor.allowedPaths.has
             /\ ~Outside(f.accessor, f.arg))
                => \A e \in f.accessor.allowedPaths.paths :
                      AncestorOf(comps, e)
                          => /\ Permitted(f)
                             /\ f.op = "readDirectory"
                                   => /\ f.answer.kind = "entries"
                                      /\ SplitPath(e)[Len(comps) + 1] \in f.answer.value

\* what holds of C25: the same for the allow-lists in which no entry sorts
\* between an ancestor directory d of another entry and d + "/"
NoneBetween(paths) ==
    \A e \in paths, x \in paths : \A k \in 1..Len(e) :
        (e[k] = "/" /\ x # e)
            => ~( StrLess(SubSeq(e, 1, k - 1), x) /\ StrLess(x, SubSeq(e, 1, k)) )

C25_TraversalWithoutSiblings ==
    \A p \in Procs :
        LET f == fs[p]
            comps == RelComps(f.accessor, f.arg)
        IN  (/\ Telling(f)
             /\ f.accessor.allowedPaths.has
             /\ NoneBetween(f.accessor.allowedPaths.paths)
             /\ ~Outside(f.accessor, f.arg))
                => \A e \in f.accessor.allowedPaths.paths :
                      AncestorOf(comps, e)
                          => /\ Permitted(f)
                             /\ f.op = "readDirectory"
                                   => /\ f.answer.kind = "entries"
                                      /\ SplitPath(e)[Len(comps) + 1] \in f.answer.value


(***************************************************************************)
(* The filter of dumpPath. The entries of an encoding are read back from   *)
(* its tokens: an entry is named by the names of the entries that are open *)
(* where its name stands, followed by its own name.                        *)
(***************************************************************************)
\* the positions of the names of the entries of an encoding
NamePositions(tokens) == { i \in 2..Len(tokens) : tokens[i - 1] = Lit("name") }

\* the names from the dumped path down to the entry named at position i
EntryAt(tokens, i) ==
    LET depth == [k \in 1..Len(tokens) |-> DepthAt(tokens, k)]
        chain == { j \in NamePositions(tokens) :
                      j <= i /\ \A k \in j..i : depth[k] >= depth[j] }
    IN  [n \in 1..Cardinality(chain) |->
            tokens[CHOOSE j \in chain : Cardinality({ k \in chain : k < j }) = n - 1]]

\* the entries an encoding holds
Emitted(p) ==
    LET tokens == fs[p].answer.value
    IN  { EntryAt(tokens, i) : i \in NamePositions(tokens) }

\* the path of the entry `comps` below the dumped path `top`
RECURSIVE Under(_, _)
Under(top, comps) ==
    IF comps = <<>> THEN top ELSE Under(top \o Slash \o Head(comps), Tail(comps))

\* the entry and every directory between it and the dumped path are listed by
\* the accessor and pass the filter
Included(p, comps) ==
    \A m \in 1..Len(comps) :
        LET listing == FsReadDirectory(fs[p].accessor, work.tree,
                                       Under(fs[p].arg, SubSeq(comps, 1, m - 1)))
        IN  /\ listing.kind = "entries"
            /\ comps[m] \in listing.value
            /\ Under(fs[p].arg, SubSeq(comps, 1, m)) \notin fs[p].excluded
            /\ comps[m] \notin fs[p].excluded

\* the files below the dumped path, by their names from it
Below(p) ==
    LET top == MakeAbsPath(fs[p].accessor, fs[p].arg)
    IN  { SplitPath(SubSeq(q, Len(top) + 1, Len(q))) :
            q \in { e \in DOMAIN work.tree : IsInDir(e, top) } }

Included_All(p) == { comps \in Below(p) : Included(p, comps) }

\* lstat tells a type that dump knows
Supported(p, comps) ==
    LET st == FsLstat(fs[p].accessor, work.tree, Under(fs[p].arg, comps))
    IN  st.kind = "stat" /\ st.value \in {"regular", "directory", "symlink"}

\* C26: an encoding holds exactly the entries that pass the filter together
\* with every directory between them and the dumped path; the filter is asked
\* about the dumped path followed by the names down to the entry, never about
\* the dumped path itself; and what lies under a rejected entry is not read, so
\* the encoding fails only for an unsupported file among the entries it holds.
C26_IncludePredicate ==
    \A p \in Procs :
        Dumped(p) =>
            /\ fs[p].answer.kind = "nar" => Emitted(p) = Included_All(p)
            /\ fs[p].answer.kind = "nar"
                  <=> \A comps \in Included_All(p) \cup {<<>>} : Supported(p, comps)

\* the directory /a/a, which holds a pipe, is rejected by name and the root is
\* encoded without it; /a/a is encoded although the filter rejects its name
C26_Witness ==
    /\ Dumped("p1") /\ Dumped("p2")
    /\ work.tree = PipeSystem
    /\ fs["p1"].accessor = [root |-> Root, allowedPaths |-> NoAllowedPaths]
    /\ fs["p1"].arg = Slash
    /\ fs["p1"].excluded = {<<"a">>}
    /\ fs["p1"].answer.kind = "nar"
    /\ <<<<"b">>>> \in Emitted("p1")
    /\ <<<<"a">>>> \notin Emitted("p1")
    /\ fs["p2"].accessor.allowedPaths.has
    /\ fs["p2"].arg = ArgOf(FsSub)
    /\ fs["p2"].excluded = {<<"a">>}
    /\ fs["p2"].answer.kind = "nar"
    /\ Emitted("p2") = {}


(***************************************************************************)
(* ZipInputAccessor. An archive is the sequence of its members, each with  *)
(* its name, the system that wrote its external attributes and the         *)
(* attributes (on Unix, st_mode in the upper 16 bits), a 32-bit number     *)
(* kept as its two halves. Member names begin with the name of the         *)
(* top-level directory of the archive.                                     *)
(***************************************************************************)
TypeMask       == 258048
ModeDirectory  == 16384
ModeRegular    == 32768
ModeSymlink    == 40960
OwnerExecute   == 64

RECURSIVE BitAnd(_, _)
BitAnd(x, y) ==
    IF x = 0 \/ y = 0 THEN 0
    ELSE (x % 2) * (y % 2) + 2 * BitAnd(x \div 2, y \div 2)

\* attributes >> 16
UpperHalf(attributes) == attributes.high

\* strchr(s, '/'): the position of the first slash, 0 if there is none
Strchr(s) ==
    IF \E i \in 1..Len(s) : s[i] = "/"
    THEN CHOOSE i \in 1..Len(s) : s[i] = "/" /\ \A j \in 1..(i - 1) : s[j] # "/"
    ELSE 0

\* the constructor's loop over the index: the members whose name holds a
\* slash, keyed by the name from its first slash on; emplace keeps the first
\* member of a key
MemberKeys(zipFile) ==
    { SubSeq(zipFile[n].name, Strchr(zipFile[n].name), Len(zipFile[n].name)) :
        n \in { k \in 1..Len(zipFile) : Strchr(zipFile[k].name) # 0 } }

Members(zipFile) ==
    [key \in MemberKeys(zipFile) |->
        CHOOSE n \in 1..Len(zipFile) :
            /\ Strchr(zipFile[n].name) # 0
            /\ SubSeq(zipFile[n].name, Strchr(zipFile[n].name), Len(zipFile[n].name)) = key
            /\ \A k \in 1..(n - 1) :
                  ~ /\ Strchr(zipFile[k].name) # 0
                    /\ SubSeq(zipFile[k].name, Strchr(zipFile[k].name),
                              Len(zipFile[k].name)) = key]

\* ZipInputAccessor(zipPath)
MakeZipInputAccessor(p, zipFile) ==
    /\ fs[p].pc = "none"
    /\ fs' = [fs EXCEPT ![p] = [IdleCall EXCEPT
                  !.pc = "ready",
                  !.accessor = [zipFile |-> zipFile, members |-> Members(zipFile)]]]
    /\ UNCHANGED <<clock, settings, upstream, mirror, work, lockHolder, cache, hist>>

\* throw Error("file '%s' does not exist", path)
ZipNotFound == [kind |-> "NotFound"]

\* ZipInputAccessor::readFile(path)
ZipReadFile(acc, path0) ==
    LET path == CanonPath(path0)
    IN  IF path \notin DOMAIN acc.members THEN ZipNotFound
        ELSE [kind |-> "contents", value |-> acc.zipFile[acc.members[path]].name]

\* ZipInputAccessor::pathExists(path)
ZipPathExists(acc, path0) ==
    [kind |-> "exists", value |-> CanonPath(path0) \in DOMAIN acc.members]

\* `auto type = (attributes >> 16) & 0770000` declares a second variable
\* `type` in the switch, and the cases assign to that one: the `type` that
\* lstat returns keeps the value it had before the switch
TypeOfMode(found, mode) == found

\* ZipInputAccessor::lstat(path)
ZipLstat(acc, path0) ==
    LET path == CanonPath(path0)
        asFile == path \in DOMAIN acc.members
        asDir == (path \o Slash) \in DOMAIN acc.members
        found == IF asFile THEN "regular" ELSE "directory"
    IN  IF ~asFile /\ ~asDir THEN ZipNotFound
        ELSE LET i == IF asFile THEN acc.members[path] ELSE acc.members[path \o Slash]
                 opsys == acc.zipFile[i].opsys
                 attributes == acc.zipFile[i].attributes
                 mode == BitAnd(UpperHalf(attributes), TypeMask)
             IN  IF opsys # "unix"
                 THEN [kind |-> "stat", value |-> found, isExecutable |-> FALSE]
                 ELSE IF mode \notin {ModeDirectory, ModeRegular, ModeSymlink}
                 THEN [kind |-> "UnsupportedFileType"]
                 ELSE [kind |-> "stat", value |-> TypeOfMode(found, mode),
                       isExecutable |->
                          /\ mode = ModeRegular
                          /\ BitAnd(UpperHalf(attributes), OwnerExecute) # 0]

\* auto path = canonPath(_path) + "/"
DirectoryKey(path0) == CanonPath(path0) \o Slash

\* ZipInputAccessor::readDirectory(path): the loop runs from the member after
\* `path` over the keys that begin with `path`
ZipReadDirectory(acc, path0) ==
    LET path == DirectoryKey(path0)
        keys == SetInOrder(DOMAIN acc.members)
    IN  IF path \notin DOMAIN acc.members THEN ZipNotFound
        ELSE LET i == CHOOSE n \in 1..Len(keys) : keys[n] = path
                 end == IF \E n \in (i + 1)..Len(keys) : ~HasPrefix(keys[n], path)
                        THEN CHOOSE n \in (i + 1)..Len(keys) :
                                /\ ~HasPrefix(keys[n], path)
                                /\ \A k \in (i + 1)..(n - 1) : HasPrefix(keys[k], path)
                        ELSE Len(keys) + 1
                 name(n) ==
                    LET start == SubSeq(keys[n], Len(path) + 1, Len(keys[n]))
                        slash == Strchr(start)
                    IN  IF slash # 0 THEN SubSeq(start, 1, slash - 1) ELSE start
                 skipped(n) ==
                    LET start == SubSeq(keys[n], Len(path) + 1, Len(keys[n]))
                        slash == Strchr(start)
                    IN  slash # 0 /\ SubSeq(start, slash, Len(start)) # Slash
             IN  [kind |-> "entries",
                  value |-> { name(n) : n \in { k \in (i + 1)..(end - 1) : ~skipped(k) } }]

\* ZipInputAccessor::readLink(path)
ZipReadLink(acc, path0) == [kind |-> "Unimplemented"]

\* one call of the archive accessor
ZipCall(p, op, path, answer) ==
    /\ fs[p].pc = "ready"
    /\ fs' = [fs EXCEPT ![p] = [@ EXCEPT
                  !.op = op, !.arg = path, !.excluded = {}, !.read = <<>>,
                  !.answer = answer]]
    /\ UNCHANGED <<clock, settings, upstream, mirror, work, lockHolder, cache, hist>>

ZipReadFileCall(p, path) == ZipCall(p, "readFile", path, ZipReadFile(fs[p].accessor, path))
ZipPathExistsCall(p, path) ==
    ZipCall(p, "pathExists", path, ZipPathExists(fs[p].accessor, path))
ZipLstatCall(p, path) == ZipCall(p, "lstat", path, ZipLstat(fs[p].accessor, path))
ZipReadDirectoryCall(p, path) ==
    ZipCall(p, "readDirectory", path, ZipReadDirectory(fs[p].accessor, path))
ZipReadLinkCall(p, path) == ZipCall(p, "readLink", path, ZipReadLink(fs[p].accessor, path))

\* the members of the archives: the top-level directory a/, the file a/a, the
\* directory a/b/ with an executable file, a symbolic link and a directory
\* with a file in it, a pipe a/0, and a member whose name has no slash
Unix(name, mode) ==
    [name |-> name, opsys |-> "unix", attributes |-> [high |-> mode, low |-> 0]]
Dos(name) == [name |-> name, opsys |-> "dos", attributes |-> [high |-> 0, low |-> 0]]

ZipTop      == Unix(<<"a", "/">>, ModeDirectory + 493)
ZipFile     == Unix(<<"a", "/", "a">>, ModeRegular + 420)
ZipDir      == Unix(<<"a", "/", "b", "/">>, ModeDirectory + 493)
ZipExec     == Unix(<<"a", "/", "b", "/", "a">>, ModeRegular + 493)
ZipLink     == Unix(<<"a", "/", "b", "/", "0">>, ModeSymlink + 511)
ZipSubDir   == Unix(<<"a", "/", "b", "/", "b", "/">>, ModeDirectory + 493)
ZipDeep     == Unix(<<"a", "/", "b", "/", "b", "/", "a">>, ModeRegular + 420)
ZipPipe     == Unix(<<"a", "/", "0">>, 4096 + 420)
ZipNoSlash  == Unix(<<"b">>, ModeRegular + 420)

ZipListing ==
    <<ZipTop, ZipFile, ZipDir, ZipExec, ZipLink, ZipSubDir, ZipDeep, ZipPipe, ZipNoSlash>>

Archives ==
    { ZipListing, Reversed(ZipListing),
      SelectSeq(ZipListing, LAMBDA e : e # ZipTop),
      SelectSeq(ZipListing, LAMBDA e : e \notin {ZipSubDir, ZipPipe}),
      <<ZipTop, Dos(ZipFile.name), Dos(ZipDir.name)>> }

ZipArgs ==
    { Slash, <<"/", "a">>, <<"/", "b">>, <<"/", "b", "/">>, <<"/", "b", "/", "a">>,
      <<"/", "b", "/", "0">>, <<"/", "b", "/", "b">>, <<"/", "b", "/", "b", "/", "a">>,
      <<"/", "0">>, <<"/", "a", "/", ".", ".", "/", "b">>, <<"/", "a", "/", "a">> }

NextZip ==
    \/ \E zipFile \in Archives : MakeZipInputAccessor("p1", zipFile)
    \/ \E path \in ZipArgs : ZipReadFileCall("p1", path)
    \/ \E path \in ZipArgs : ZipPathExistsCall("p1", path)
    \/ \E path \in ZipArgs : ZipLstatCall("p1", path)
    \/ \E path \in ZipArgs : ZipReadDirectoryCall("p1", path)
    \/ \E path \in ZipArgs : ZipReadLinkCall("p1", path)

SpecZip == InitAccessor /\ [][NextZip]_vars

\* the member a path names: the file of that name, or the directory
MemberOf(acc, path0) ==
    LET path == CanonPath(path0)
    IN  { n \in 1..Len(acc.zipFile) :
            /\ Strchr(acc.zipFile[n].name) # 0
            /\ SubSeq(acc.zipFile[n].name, Strchr(acc.zipFile[n].name),
                      Len(acc.zipFile[n].name)) \in {path, path \o Slash} }

\* st_mode of a member and what it says
ModeOf(member) == member.attributes.high
IsDirMode(m) == (m \div 4096) % 16 = 4
IsRegMode(m) == (m \div 4096) % 16 = 8
IsLinkMode(m) == (m \div 4096) % 16 = 10

\* the answer of lstat agrees with st_mode of the member
StatAgrees(answer, m) ==
    IF IsDirMode(m) THEN answer.kind = "stat" /\ answer.value = "directory"
    ELSE IF IsRegMode(m)
    THEN /\ answer.kind = "stat" /\ answer.value = "regular"
         /\ answer.isExecutable = ((m \div 64) % 2 = 1)
    ELSE IF IsLinkMode(m) THEN answer.kind = "stat" /\ answer.value = "symlink"
    ELSE answer.kind = "UnsupportedFileType"

\* C27: lstat of a member with Unix attributes tells a directory for a
\* directory, a regular file with the owner-execute bit for a regular file, a
\* symbolic link for a symbolic link, and fails with UnsupportedFileType for
\* every other mode; the root of the archive is a directory.
C27_StatTypeRecovery ==
    \A p \in Procs :
        LET f == fs[p]
        IN  (f.pc = "ready" /\ f.op = "lstat") =>
                /\ \A n \in MemberOf(f.accessor, f.arg) :
                      f.accessor.zipFile[n].opsys = "unix"
                          => StatAgrees(f.answer, ModeOf(f.accessor.zipFile[n]))
                /\ (CanonPath(f.arg) = Slash /\ Slash \in DOMAIN f.accessor.members)
                      => f.answer.kind = "stat" /\ f.answer.value = "directory"

\* what holds of C27: the same for the members that are no symbolic links,
\* other than the root
C27_StatOfFilesAndDirectories ==
    \A p \in Procs :
        LET f == fs[p]
        IN  (f.pc = "ready" /\ f.op = "lstat" /\ CanonPath(f.arg) # Slash) =>
                \A n \in MemberOf(f.accessor, f.arg) :
                    ( /\ f.accessor.zipFile[n].opsys = "unix"
                      /\ ~IsLinkMode(ModeOf(f.accessor.zipFile[n])) )
                        => StatAgrees(f.answer, ModeOf(f.accessor.zipFile[n]))

\* the directory of the index that a path names: "/" for the root, and the
\* path followed by a slash below it
DirectoryOf(path0) ==
    IF CanonPath(path0) = Slash THEN Slash ELSE CanonPath(path0) \o Slash

\* the names of the members that lie in a directory of the index
ChildrenOf(acc, dir) ==
    { name \in { IF key[Len(key)] = "/" THEN SubSeq(key, Len(dir) + 1, Len(key) - 1)
                 ELSE SubSeq(key, Len(dir) + 1, Len(key)) :
                    key \in { k \in DOMAIN acc.members : k # dir /\ HasPrefix(k, dir) } } :
        name # <<>> /\ Strchr(name) = 0 }

\* C28: readDirectory of a directory of the index, the root "/" among them,
\* tells the names of the members that lie in the directory and of no other,
\* and it fails with NotFound only for a path that is no directory of the
\* index.
C28_ArchiveReadDirectory ==
    \A p \in Procs :
        LET f == fs[p]
        IN  (f.pc = "ready" /\ f.op = "readDirectory") =>
                IF DirectoryOf(f.arg) \in DOMAIN f.accessor.members
                THEN /\ f.answer.kind = "entries"
                     /\ f.answer.value = ChildrenOf(f.accessor, DirectoryOf(f.arg))
                ELSE f.answer.kind = "NotFound"

\* what holds of C28: the same for every path but the root
C28_ReadDirectoryBelowRoot ==
    \A p \in Procs :
        LET f == fs[p]
        IN  (f.pc = "ready" /\ f.op = "readDirectory" /\ CanonPath(f.arg) # Slash) =>
                IF DirectoryOf(f.arg) \in DOMAIN f.accessor.members
                THEN /\ f.answer.kind = "entries"
                     /\ f.answer.value = ChildrenOf(f.accessor, DirectoryOf(f.arg))
                ELSE f.answer.kind = "NotFound"

\* readDirectory has listed a directory that holds a directory with members
C28_ListedBelowRoot ==
    /\ fs["p1"].pc = "ready" /\ fs["p1"].op = "readDirectory"
    /\ fs["p1"].arg = <<"/", "b">>
    /\ fs["p1"].answer.kind = "entries"
    /\ fs["p1"].answer.value = {<<"0">>, <<"a">>, <<"b">>}

====
